---- MODULE Spec2Model ----
(***************************************************************************)
(* Hierarchical task board: the task forest of the active project, the     *)
(* drag-and-drop handlers of hooks/useDnd.ts (onDragStart, onDragOver,     *)
(* onDragEnd) and the programmatic task operations of hooks/useAppData.ts  *)
(* (moveToColumn, deleteTask).                                             *)
(*                                                                         *)
(* A task is a record [id, sourceId, content, isExpanded, children].       *)
(* Ids are strings; "" stands for JavaScript undefined / null (it is falsy *)
(* in the source as well, so `a || b` is modelled as IF a # "" ...).       *)
(* `content` stands for all the shallow fields that the object spread      *)
(* copies verbatim (content, createdAt, priority, completed).              *)
(***************************************************************************)
EXTENDS Integers, Sequences, FiniteSets, TLC

VARIABLES
    columns,        \* activeProject.columns : column id -> sequence of tasks
    wipLimit,       \* activeProject.wipLimit
    activeId,       \* useDnd state: id of the dragged task, "" when idle
    over,           \* the droppable currently under the drag (event.over)
    dragState,      \* useDnd state: the DragState of the last onDragOver
    nextId,         \* number of ids nanoid() has handed out so far
    ops,            \* number of gestures and menu operations begun so far
    last,           \* the last handler committed since the current gesture began:
                    \* its arguments, the column map it started from, and
                    \* whether it raised the WIP alert
    data,           \* useAppData state: the AppData
    latestData,     \* useAppData ref latestData.current
    isLoading,      \* useAppData state isLoading
    isFirstLoad,    \* useAppData ref isFirstLoad.current
    isSaving,       \* useAppData ref isSaving.current
    pendingSave,    \* useAppData ref pendingSave.current
    ignoreNextSave, \* useAppData ref ignoreNextSave.current
    saveStatus,     \* useAppData state saveStatus
    debounceTimers, \* number of pending 1000 ms timers of the save effect
    retriggerTimers,\* number of pending 100 ms timers of doSave
    debounceAfterRetrigger, \* the pending 1000 ms timer was set after a pending
                    \* 100 ms timer, which is therefore due first
    effectsPending, \* a setData of doSave is committed, its effects not yet run
    inFlight,       \* payloads of the saveToServer requests not yet resolved
    trace,          \* what the persistence handlers have done so far: the
                    \* payloads sent, and the last handler with the state it met
    isCtrlPressed,  \* useCtrlPress state: a Control / Meta key is held
    activatorCtrlKey, \* ctrlKey of the pointer-down event that began the drag
    autoGroupState  \* useDnd state: the grouping preview shown on the overlay

dragVars == <<columns, wipLimit, activeId, over, dragState, nextId, ops, last>>

saveVars == <<data, latestData, isLoading, isFirstLoad, isSaving, pendingSave,
              ignoreNextSave, saveStatus, debounceTimers, retriggerTimers,
              debounceAfterRetrigger, effectsPending, inFlight, trace>>

keyVars == <<isCtrlPressed, activatorCtrlKey, autoGroupState>>

vars == <<columns, wipLimit, activeId, over, dragState, nextId, ops, last,
          data, latestData, isLoading, isFirstLoad, isSaving, pendingSave,
          ignoreNextSave, saveStatus, debounceTimers, retriggerTimers,
          debounceAfterRetrigger, effectsPending, inFlight, trace,
          isCtrlPressed, activatorCtrlKey, autoGroupState>>

(***************************************************************************)
(* Bounds                                                                  *)
(***************************************************************************)
MaxOps == 1

(***************************************************************************)
(* Program constants and types                                             *)
(***************************************************************************)
ColumnOrder == <<"backlog", "todo", "in-progress", "done">>

ColumnIds == {ColumnOrder[i] : i \in 1..Len(ColumnOrder)}

HeaderOffset == 50

NoTask == [id |-> "", sourceId |-> "", content |-> "", isExpanded |-> FALSE, children |-> <<>>]

NullDragState == [type |-> "null", position |-> "", targetId |-> ""]

NullOver == [id |-> "", zone |-> ""]

\* AutoGroupState null
NullAutoGroup == [type |-> "null", parentId |-> ""]

Zones == {"top", "mid", "bot", ""}

OverTops == {0}

CenterYs == {49, 50}

FreshIds == <<"n1", "n2", "n3", "n4", "n5", "n6", "n7", "n8">>

nanoid(n) == FreshIds[n + 1]

(***************************************************************************)
(* Task tree utilities                                                     *)
(***************************************************************************)
RECURSIVE findTask(_, _)
findTask(tasks, id) ==
    IF tasks = <<>> THEN NoTask
    ELSE LET task == Head(tasks)
         IN IF task.id = id THEN task
            ELSE LET found == IF Len(task.children) > 0
                                 THEN findTask(task.children, id)
                                 ELSE NoTask
                 IN IF found # NoTask THEN found
                    ELSE findTask(Tail(tasks), id)

\* variant: no task is ever taken for a descendant
isDescendantNever(tasks, sourceId, targetId) == FALSE

\* variant: only the direct children are looked at
isDescendantChildOnly(tasks, sourceId, targetId) ==
    LET source == findTask(tasks, sourceId)
    IN IF source = NoTask THEN FALSE
       ELSE \E i \in 1..Len(source.children) : source.children[i].id = targetId

isDescendant(tasks, sourceId, targetId) ==
    LET source == findTask(tasks, sourceId)
    IN IF source = NoTask THEN FALSE
       ELSE findTask(source.children, targetId) # NoTask

RECURSIVE countLeaves(_)
countLeaves(tasks) ==
    IF tasks = <<>> THEN 0
    ELSE LET t == Head(tasks)
         IN (IF Len(t.children) = 0 THEN 1 ELSE countLeaves(t.children))
            + countLeaves(Tail(tasks))

RECURSIVE findParent(_, _)
findParent(tasks, childId) ==
    IF tasks = <<>> THEN NoTask
    ELSE LET task == Head(tasks)
         IN IF \E i \in 1..Len(task.children) : task.children[i].id = childId
               THEN task
               ELSE LET found == findParent(task.children, childId)
                    IN IF found # NoTask THEN found
                       ELSE findParent(Tail(tasks), childId)

\* variant: matches the original only, not its other duplicates
RECURSIVE findMatchingParentByIdOnly(_, _)
findMatchingParentByIdOnly(tasks, targetIdentityId) ==
    IF tasks = <<>> THEN NoTask
    ELSE LET task == Head(tasks)
         IN IF task.id = targetIdentityId THEN task
            ELSE LET found == findMatchingParentByIdOnly(task.children, targetIdentityId)
                 IN IF found # NoTask THEN found
                    ELSE findMatchingParentByIdOnly(Tail(tasks), targetIdentityId)

RECURSIVE findMatchingParent(_, _)
findMatchingParent(tasks, targetIdentityId) ==
    IF tasks = <<>> THEN NoTask
    ELSE LET task == Head(tasks)
         IN IF task.sourceId = targetIdentityId THEN task
            ELSE IF task.id = targetIdentityId THEN task
            ELSE LET found == findMatchingParent(task.children, targetIdentityId)
                 IN IF found # NoTask THEN found
                    ELSE findMatchingParent(Tail(tasks), targetIdentityId)

\* Object.values(columns).flat()
allTasksOf(cols) ==
    cols[ColumnOrder[1]] \o cols[ColumnOrder[2]] \o cols[ColumnOrder[3]] \o cols[ColumnOrder[4]]

\* the forEach over Object.keys(columns) that keeps the last column holding id
sourceColumnOf(cols, id) ==
    LET hits == {i \in 1..Len(ColumnOrder) : findTask(cols[ColumnOrder[i]], id) # NoTask}
    IN IF hits = {} THEN ""
       ELSE ColumnOrder[CHOOSE i \in hits : \A j \in hits : j <= i]

RECURSIVE idsOf(_)
idsOf(tasks) ==
    IF tasks = <<>> THEN {}
    ELSE {Head(tasks).id} \cup idsOf(Head(tasks).children) \cup idsOf(Tail(tasks))

(***************************************************************************)
(* Mutation engine (onDragEnd of hooks/useDnd.ts)                          *)
(***************************************************************************)
\* removeFromTree: the forest without the tasks whose id is the dragged id
RECURSIVE removeFromTree(_, _)
removeFromTree(tasks, id) ==
    IF tasks = <<>> THEN <<>>
    ELSE LET t == Head(tasks)
         IN IF t.id = id THEN removeFromTree(Tail(tasks), id)
            ELSE <<[t EXCEPT !.children = removeFromTree(t.children, id)]>>
                 \o removeFromTree(Tail(tasks), id)

\* the task removeFromTree leaves in taskToMove: the last one it meets
RECURSIVE takenFromTree(_, _)
takenFromTree(tasks, id) ==
    IF tasks = <<>> THEN NoTask
    ELSE LET later == takenFromTree(Tail(tasks), id)
             t == Head(tasks)
         IN IF later # NoTask THEN later
            ELSE IF t.id = id THEN t
            ELSE takenFromTree(t.children, id)

\* taskToMove after removeFromTree has run over every column in key order
takenFromColumns(cols, id) ==
    LET hits == {i \in 1..Len(ColumnOrder) : takenFromTree(cols[ColumnOrder[i]], id) # NoTask}
    IN IF hits = {} THEN NoTask
       ELSE takenFromTree(cols[ColumnOrder[CHOOSE i \in hits : \A j \in hits : j <= i]], id)

\* variant: the duplicate carries the children along
duplicateOfWithChildren(sourceTask, freshId) ==
    [sourceTask EXCEPT !.id = freshId,
                       !.sourceId = IF sourceTask.sourceId # "" THEN sourceTask.sourceId
                                    ELSE sourceTask.id]

\* the duplicate made for a modifier-held drag of a top-level task
duplicateOf(sourceTask, freshId) ==
    [sourceTask EXCEPT !.id = freshId,
                       !.children = <<>>,
                       !.sourceId = IF sourceTask.sourceId # "" THEN sourceTask.sourceId
                                    ELSE sourceTask.id]

identityOf(parent) == IF parent.sourceId # "" THEN parent.sourceId ELSE parent.id

\* matchingParent.children.push(taskToMove); matchingParent.isExpanded = true
\* applied to the first task findMatchingParent meets
RECURSIVE pushIntoMatchingParent(_, _, _)
pushIntoMatchingParent(tasks, identityId, taskToMove) ==
    IF tasks = <<>> THEN <<>>
    ELSE LET t == Head(tasks)
         IN IF t.sourceId = identityId \/ t.id = identityId
               THEN <<[t EXCEPT !.children = Append(@, taskToMove), !.isExpanded = TRUE]>>
                    \o Tail(tasks)
            ELSE IF findMatchingParent(t.children, identityId) # NoTask
               THEN <<[t EXCEPT !.children = pushIntoMatchingParent(@, identityId, taskToMove)]>>
                    \o Tail(tasks)
            ELSE <<t>> \o pushIntoMatchingParent(Tail(tasks), identityId, taskToMove)

\* variant: the copy keeps the parent's own sourceId
parentCopyOfKeepsSourceId(originalParent, freshId, taskToMove) ==
    [originalParent EXCEPT !.id = freshId,
                           !.children = <<taskToMove>>]

parentCopyOf(originalParent, freshId, taskToMove) ==
    [originalParent EXCEPT !.id = freshId,
                           !.sourceId = identityOf(originalParent),
                           !.children = <<taskToMove>>]

\* variant: a parent copy is made even when the column has a matching parent
autoGroupAlwaysCopies(newCols, colId, originalParent, taskToMove, freshId) ==
    [newCols EXCEPT ![colId] = Append(@, parentCopyOf(originalParent, freshId, taskToMove))]

\* the auto-grouping block: group under the matching parent of the column,
\* or append a copy of the original parent holding the task
autoGroup(newCols, colId, originalParent, taskToMove, freshId) ==
    LET identityId == identityOf(originalParent)
        matchingParent == findMatchingParent(newCols[colId], identityId)
    IN IF matchingParent # NoTask
          THEN [newCols EXCEPT ![colId] = pushIntoMatchingParent(@, identityId, taskToMove)]
          ELSE [newCols EXCEPT ![colId] = Append(@, parentCopyOf(originalParent, freshId, taskToMove))]

\* variant: an insert always goes before the target, whatever the position
RECURSIVE placeAtTargetAlwaysBefore(_, _, _)
placeAtTargetAlwaysBefore(tasks, finalDragState, taskToMove) ==
    IF tasks = <<>> THEN <<>>
    ELSE LET t == Head(tasks)
         IN IF t.id = finalDragState.targetId
               THEN IF finalDragState.type = "nest"
                       THEN <<[t EXCEPT !.children = Append(@, taskToMove), !.isExpanded = TRUE]>>
                            \o Tail(tasks)
                    ELSE IF finalDragState.type = "insert"
                       THEN <<taskToMove, t>> \o Tail(tasks)
                    ELSE tasks
            ELSE IF findTask(t.children, finalDragState.targetId) # NoTask
               THEN <<[t EXCEPT !.children =
                          placeAtTargetAlwaysBefore(@, finalDragState, taskToMove)]>>
                    \o Tail(tasks)
            ELSE <<t>> \o placeAtTargetAlwaysBefore(Tail(tasks), finalDragState, taskToMove)

\* the standard logic of findAndHandle at the first task whose id is targetId
RECURSIVE placeAtTarget(_, _, _)
placeAtTarget(tasks, finalDragState, taskToMove) ==
    IF tasks = <<>> THEN <<>>
    ELSE LET t == Head(tasks)
         IN IF t.id = finalDragState.targetId
               THEN IF finalDragState.type = "nest"
                       THEN <<[t EXCEPT !.children = Append(@, taskToMove), !.isExpanded = TRUE]>>
                            \o Tail(tasks)
                    ELSE IF finalDragState.type = "insert"
                       THEN IF finalDragState.position = "top"
                               THEN <<taskToMove, t>> \o Tail(tasks)
                               ELSE <<t, taskToMove>> \o Tail(tasks)
                    ELSE tasks
            ELSE IF findTask(t.children, finalDragState.targetId) # NoTask
               THEN <<[t EXCEPT !.children = placeAtTarget(@, finalDragState, taskToMove)]>>
                    \o Tail(tasks)
            ELSE <<t>> \o placeAtTarget(Tail(tasks), finalDragState, taskToMove)

\* the WIP test of the standard column drop (its body is empty in the source)
dragWipExceeded(newCols, taskToMove, limit) ==
    LET currentLeaves == countLeaves(newCols["in-progress"])
        incomingLeaves == IF Len(taskToMove.children) = 0 THEN 1
                          ELSE countLeaves(taskToMove.children)
    IN currentLeaves + incomingLeaves > limit

\* variant: grouping applies within the source column as well
dropOnColumnGroupsAnywhere(cols, newCols, limit, active, finalDragState, ctrlKey, taskToMove, freshId) ==
    LET targetId == finalDragState.targetId
        originalParent == findParent(allTasksOf(cols), active)
    IN IF ctrlKey /\ originalParent # NoTask
          THEN autoGroup(newCols, targetId, originalParent, taskToMove, freshId)
       ELSE IF finalDragState.position = "top"
          THEN [newCols EXCEPT ![targetId] = <<taskToMove>> \o @]
       ELSE [newCols EXCEPT ![targetId] = Append(@, taskToMove)]

\* case 1 of the insertion: the DragState targets a column
dropOnColumn(cols, newCols, limit, active, finalDragState, ctrlKey, taskToMove, freshId) ==
    LET targetId == finalDragState.targetId
        originalParent == findParent(allTasksOf(cols), active)
        sourceColumnId == sourceColumnOf(cols, active)
        isCrossColumn == sourceColumnId # "" /\ sourceColumnId # targetId
    IN IF ctrlKey /\ originalParent # NoTask /\ isCrossColumn
          THEN autoGroup(newCols, targetId, originalParent, taskToMove, freshId)
       ELSE IF finalDragState.position = "top"
          THEN [newCols EXCEPT ![targetId] = <<taskToMove>> \o @]
       ELSE IF targetId = "in-progress" /\ dragWipExceeded(newCols, taskToMove, limit)
          THEN [newCols EXCEPT ![targetId] = Append(@, taskToMove)]
       ELSE [newCols EXCEPT ![targetId] = Append(@, taskToMove)]

\* variant: a task target is always taken literally, grouping or not
dropOnTaskLiteral(cols, newCols, active, finalDragState, ctrlKey, taskToMove, freshId) ==
    LET targetId == finalDragState.targetId
        hits == {i \in 1..Len(ColumnOrder) : findTask(newCols[ColumnOrder[i]], targetId) # NoTask}
    IN IF hits = {}
          THEN [newCols EXCEPT !["backlog"] = Append(@, taskToMove)]
          ELSE LET colId == ColumnOrder[CHOOSE i \in hits : \A j \in hits : i <= j]
               IN [newCols EXCEPT ![colId] = placeAtTarget(@, finalDragState, taskToMove)]

\* variant: no backlog fallback when no column holds the target
dropOnTaskNoFallback(cols, newCols, active, finalDragState, ctrlKey, taskToMove, freshId) ==
    LET targetId == finalDragState.targetId
        originalParent == findParent(allTasksOf(cols), active)
        sourceColumnId == sourceColumnOf(cols, active)
        hits == {i \in 1..Len(ColumnOrder) : findTask(newCols[ColumnOrder[i]], targetId) # NoTask}
    IN IF hits = {}
          THEN newCols
          ELSE LET colId == ColumnOrder[CHOOSE i \in hits : \A j \in hits : i <= j]
                   isCrossColumn == sourceColumnId # "" /\ sourceColumnId # colId
               IN IF ctrlKey /\ originalParent # NoTask /\ isCrossColumn
                     THEN autoGroup(newCols, colId, originalParent, taskToMove, freshId)
                     ELSE [newCols EXCEPT ![colId] = placeAtTarget(@, finalDragState, taskToMove)]

\* case 2 of the insertion: the DragState targets a task (findAndHandle), with
\* the backlog fallback when no column holds the target
dropOnTask(cols, newCols, active, finalDragState, ctrlKey, taskToMove, freshId) ==
    LET targetId == finalDragState.targetId
        originalParent == findParent(allTasksOf(cols), active)
        sourceColumnId == sourceColumnOf(cols, active)
        hits == {i \in 1..Len(ColumnOrder) : findTask(newCols[ColumnOrder[i]], targetId) # NoTask}
    IN IF hits = {}
          THEN [newCols EXCEPT !["backlog"] = Append(@, taskToMove)]
          ELSE LET colId == ColumnOrder[CHOOSE i \in hits : \A j \in hits : i <= j]
                   isCrossColumn == sourceColumnId # "" /\ sourceColumnId # colId
               IN IF ctrlKey /\ originalParent # NoTask /\ isCrossColumn
                     THEN autoGroup(newCols, colId, originalParent, taskToMove, freshId)
                     ELSE [newCols EXCEPT ![colId] = placeAtTarget(@, finalDragState, taskToMove)]

\* the column map onDragEnd hands to updateProjectColumns; the map is returned
\* as it was when the handler returns before committing (no taskToMove)
onDragEndColumns(cols, limit, active, finalDragState, ctrlKey, freshId) ==
    LET allTasks == allTasksOf(cols)
        originalParent == findParent(allTasks, active)
        isTopLevel == originalParent = NoTask
        isDuplicateOperation == ctrlKey /\ isTopLevel
        sourceTask == findTask(allTasks, active)
        taskToMove == IF isDuplicateOperation
                         THEN IF sourceTask # NoTask THEN duplicateOf(sourceTask, freshId)
                              ELSE NoTask
                         ELSE takenFromColumns(cols, active)
        newCols == IF isDuplicateOperation THEN cols
                   ELSE [k \in ColumnIds |-> removeFromTree(cols[k], active)]
    IN IF taskToMove = NoTask THEN cols
       ELSE IF finalDragState # NullDragState
          THEN IF finalDragState.targetId \in ColumnIds
                  THEN dropOnColumn(cols, newCols, limit, active, finalDragState, ctrlKey,
                                    taskToMove, freshId)
                  ELSE dropOnTask(cols, newCols, active, finalDragState, ctrlKey,
                                  taskToMove, freshId)
          ELSE [newCols EXCEPT !["backlog"] = Append(@, taskToMove)]

(***************************************************************************)
(* Drag intent classifier (onDragOver of hooks/useDnd.ts)                  *)
(***************************************************************************)
\* rawOver is the droppable under the pointer: [id, zone], the zone being the
\* "-top" / "-mid" / "-bot" suffix of the droppable id ("" when it has none)
getRealId(rawOver) == rawOver.id

\* variant: a centre exactly on the threshold still counts as the header
aboveHeaderInclusive(activeCenterY, headerThreshold) == activeCenterY <= headerThreshold

\* if (activeCenterY < headerThreshold)
aboveHeader(activeCenterY, headerThreshold) == activeCenterY < headerThreshold

onDragOverState(cols, active, rawOver, overTop, activeCenterY) ==
    LET overId == getRealId(rawOver)
        allTasks == allTasksOf(cols)
        isColumn == rawOver.zone = "" /\ rawOver.id \in ColumnIds
        tasksInColumn == cols[rawOver.id]
        headerThreshold == overTop + HeaderOffset
    IN IF rawOver = NullOver THEN NullDragState
       ELSE IF active = overId THEN NullDragState
       ELSE IF isDescendant(allTasks, active, overId) THEN NullDragState
       ELSE IF isColumn
          THEN IF aboveHeader(activeCenterY, headerThreshold)
                  THEN [type |-> "insert", position |-> "top", targetId |-> rawOver.id]
               ELSE IF Len(tasksInColumn) > 0 /\ tasksInColumn[Len(tasksInColumn)].id # active
                  THEN [type |-> "insert", position |-> "bottom",
                        targetId |-> tasksInColumn[Len(tasksInColumn)].id]
               ELSE [type |-> "insert", position |-> "bottom", targetId |-> rawOver.id]
       ELSE IF rawOver.zone = "top"
          THEN [type |-> "insert", position |-> "top", targetId |-> overId]
       ELSE IF rawOver.zone = "mid"
          THEN [type |-> "nest", position |-> "", targetId |-> overId]
       ELSE IF rawOver.zone = "bot"
          THEN [type |-> "insert", position |-> "bottom", targetId |-> overId]
       ELSE [type |-> "nest", position |-> "", targetId |-> overId]

(***************************************************************************)
(* Task operations of hooks/useAppData.ts                                  *)
(***************************************************************************)
\* variant: only the list itself is filtered, not the children
removeTaskTopLevelOnly(tasks, id) == SelectSeq(tasks, LAMBDA t : t.id # id)

RECURSIVE removeTask(_, _)
removeTask(tasks, id) ==
    IF tasks = <<>> THEN <<>>
    ELSE LET t == Head(tasks)
         IN IF t.id # id
               THEN <<[t EXCEPT !.children = removeTask(t.children, id)]>>
                    \o removeTask(Tail(tasks), id)
               ELSE removeTask(Tail(tasks), id)

\* removeRecursive of moveToColumn: the forest without the tasks whose id is taskId
RECURSIVE removeRecursive(_, _)
removeRecursive(tasks, taskId) ==
    IF tasks = <<>> THEN <<>>
    ELSE LET t == Head(tasks)
         IN IF t.id = taskId THEN removeRecursive(Tail(tasks), taskId)
            ELSE <<[t EXCEPT !.children = removeRecursive(t.children, taskId)]>>
                 \o removeRecursive(Tail(tasks), taskId)

\* variant: the WIP test never rejects
moveWipRejectedNever(cols, limit, taskId, targetColId) == FALSE

\* variant: the WIP test rejects a move that exactly fills the column
moveWipRejectedAtLimit(cols, limit, taskId, targetColId) ==
    LET foundTask == findTask(cols[sourceColumnOf(cols, taskId)], taskId)
    IN /\ targetColId = "in-progress"
       /\ sourceColumnOf(cols, taskId) # ""
       /\ LET currentLeaves == countLeaves(cols["in-progress"])
              incomingLeaves == IF Len(foundTask.children) = 0 THEN 1
                                ELSE countLeaves(foundTask.children)
          IN currentLeaves + incomingLeaves >= limit

\* the WIP test of moveToColumn
moveWipRejected(cols, limit, taskId, targetColId) ==
    LET foundTask == findTask(cols[sourceColumnOf(cols, taskId)], taskId)
    IN /\ targetColId = "in-progress"
       /\ sourceColumnOf(cols, taskId) # ""
       /\ LET currentLeaves == countLeaves(cols["in-progress"])
              incomingLeaves == IF Len(foundTask.children) = 0 THEN 1
                                ELSE countLeaves(foundTask.children)
          IN currentLeaves + incomingLeaves > limit

moveToColumnColumns(cols, limit, taskId, targetColId) ==
    IF moveWipRejected(cols, limit, taskId, targetColId) THEN cols
    ELSE LET taskToMove == takenFromColumns(cols, taskId)
             newCols == [k \in ColumnIds |-> removeRecursive(cols[k], taskId)]
         IN IF taskToMove # NoTask
               THEN [newCols EXCEPT ![targetColId] = Append(@, taskToMove)]
               ELSE newCols

deleteTaskColumns(cols, taskId) == [k \in ColumnIds |-> removeTask(cols[k], taskId)]

(***************************************************************************)
(* Initial boards                                                          *)
(***************************************************************************)
\* a task as addTask / addChildTask / a duplicate drag leave it
Task(id, sourceId, children) ==
    [id |-> id, sourceId |-> sourceId, content |-> id,
     isExpanded |-> Len(children) > 0, children |-> children]

EmptyColumns == [k \in ColumnIds |-> <<>>]

\* three cards, one per column
BoardFlat ==
    [EmptyColumns EXCEPT !["backlog"] = <<Task("t1", "", <<>>)>>,
                         !["todo"] = <<Task("t2", "", <<>>)>>,
                         !["in-progress"] = <<Task("t3", "", <<>>)>>]

\* task a1 with the children b1 and c1 in backlog
BoardFamily ==
    [EmptyColumns EXCEPT !["backlog"] =
        <<Task("a1", "", <<Task("b1", "", <<>>), Task("c1", "", <<>>)>>)>>]

\* one leaf in progress, a task with two leaf children waiting in todo
BoardTwoChildren ==
    [EmptyColumns EXCEPT !["in-progress"] = <<Task("t1", "", <<>>)>>,
                         !["todo"] =
        <<Task("t2", "", <<Task("t3", "", <<>>), Task("t4", "", <<>>)>>)>>]

\* three leaves in progress, a fourth waiting in todo
BoardThreeInProgress ==
    [EmptyColumns EXCEPT !["in-progress"] = <<Task("t1", "", <<>>), Task("t2", "", <<>>),
                                             Task("t3", "", <<>>)>>,
                         !["todo"] = <<Task("t4", "", <<>>)>>]

\* task a1 with the single child b1 in backlog
BoardPair ==
    [EmptyColumns EXCEPT !["backlog"] = <<Task("a1", "", <<Task("b1", "", <<>>)>>)>>]

\* BoardFamily after a modifier drag of b1 to todo: the parent copy m1 holds b1
BoardGrouped ==
    [EmptyColumns EXCEPT !["backlog"] = <<Task("a1", "", <<Task("c1", "", <<>>)>>)>>,
                         !["todo"] = <<[Task("m1", "a1", <<Task("b1", "", <<>>)>>)
                                         EXCEPT !.content = "a1"]>>]

\* task a1 held two duplicates of itself, d1 and d2 (made by modifier drags of
\* a1, then nested into a1); a modifier drag has since taken d1 to todo
BoardNestedDuplicatesGrouped ==
    [EmptyColumns EXCEPT !["backlog"] = <<Task("a1", "", <<Task("d2", "a1", <<>>)>>)>>,
                         !["todo"] = <<[Task("m1", "a1", <<Task("d1", "a1", <<>>)>>)
                                         EXCEPT !.content = "a1"]>>]

InitialBoards ==
    { [columns |-> BoardFlat, wipLimit |-> 1],
      [columns |-> BoardThreeInProgress, wipLimit |-> 3],
      [columns |-> BoardPair, wipLimit |-> 3],
      [columns |-> BoardFamily, wipLimit |-> 3],
      [columns |-> BoardGrouped, wipLimit |-> 3],
      [columns |-> BoardNestedDuplicatesGrouped, wipLimit |-> 3] }

TwoChildrenBoards ==
    { [columns |-> BoardTwoChildren, wipLimit |-> 3],
      [columns |-> BoardTwoChildren, wipLimit |-> 4] }

(***************************************************************************)
(* Application data (hooks/useAppData.ts)                                  *)
(***************************************************************************)
\* a project as addProject makes it, with the given limit and columns
Project(id, name, limit, cols) ==
    [id |-> id, name |-> name, description |-> "", wipLimit |-> limit, columns |-> cols]

\* the state before the load resolves
INITIAL_DATA == [projects |-> <<>>, activeProjectId |-> "", theme |-> "light", version |-> 0]

\* what the load effect sets when the server has no projects
EmptyLoaded == [projects |-> <<>>, activeProjectId |-> "", theme |-> "light", version |-> 1]

\* server data holding one project with the given board
LoadedWith(b) ==
    [projects |-> <<Project("p1", "p1", b.wipLimit, b.columns)>>,
     activeProjectId |-> "p1", theme |-> "light", version |-> 1]

NoEvent ==
    [kind |-> "none", arg |-> "", outcome |-> "", started |-> FALSE,
     wasPending |-> FALSE, flightsBefore |-> 0, timersBefore |-> 0, savesBefore |-> 0,
     dataBefore |-> INITIAL_DATA]

NoBurst == [active |-> FALSE, quiet |-> FALSE, saves |-> 0, edits |-> 0]

NoFail == [set |-> FALSE, quiet |-> FALSE, saves |-> 0]

\* the persistence state once the load has resolved with the given data and
\* its effects have run: nothing in flight, no timer, nothing sent
LoadedIdle(d) ==
    /\ data = d
    /\ latestData = d
    /\ isLoading = FALSE
    /\ isFirstLoad = FALSE
    /\ isSaving = FALSE
    /\ pendingSave = FALSE
    /\ ignoreNextSave = FALSE
    /\ saveStatus = "idle"
    /\ debounceTimers = 0
    /\ retriggerTimers = 0
    /\ debounceAfterRetrigger = FALSE
    /\ effectsPending = FALSE
    /\ inFlight = <<>>
    /\ trace = [saveLog |-> <<>>, event |-> NoEvent, burst |-> NoBurst, fail |-> NoFail]

(***************************************************************************)
(* State machine                                                           *)
(***************************************************************************)
TaskIds == idsOf(allTasksOf(columns))

\* the droppables under a drag: the four columns, every task (its sortable
\* node) and the three zones of every task but the dragged one, whose zones
\* are not rendered while it is dragged
Droppables ==
    {[id |-> c, zone |-> ""] : c \in ColumnIds}
    \cup {[id |-> t, zone |-> ""] : t \in TaskIds}
    \cup {[id |-> t, zone |-> z] : t \in TaskIds \ {activeId}, z \in Zones}

NoOp ==
    [op |-> "none", id |-> "", targetColId |-> "", over |-> NullOver,
     dragState |-> NullDragState, ctrlKey |-> FALSE, before |-> EmptyColumns,
     alerted |-> FALSE, isCtrlPressed |-> FALSE, autoGroupState |-> NullAutoGroup]

\* no key held, no drag begun, no preview shown
KeysIdle ==
    /\ isCtrlPressed = FALSE
    /\ activatorCtrlKey = FALSE
    /\ autoGroupState = NullAutoGroup

InitFrom(boards) ==
    /\ \E b \in boards : /\ columns = b.columns
                         /\ wipLimit = b.wipLimit
                         /\ LoadedIdle(LoadedWith(b))
    /\ activeId = ""
    /\ over = NullOver
    /\ dragState = NullDragState
    /\ nextId = 0
    /\ ops = 0
    /\ last = NoOp
    /\ KeysIdle

DragStart(id) ==
    /\ ops < MaxOps
    /\ activeId = ""
    /\ activeId' = id
    /\ ops' = ops + 1
    /\ last' = NoOp
    /\ UNCHANGED <<columns, wipLimit, over, dragState, nextId>>
    /\ UNCHANGED saveVars
    /\ UNCHANGED keyVars

DragOver(rawOver, overTop, activeCenterY) ==
    /\ activeId # ""
    /\ over' = rawOver
    /\ dragState' = onDragOverState(columns, activeId, rawOver, overTop, activeCenterY)
    /\ UNCHANGED <<columns, wipLimit, activeId, nextId, ops, last>>
    /\ UNCHANGED saveVars
    /\ UNCHANGED keyVars

\* ctrlKey is (event.activatorEvent as any)?.ctrlKey || isCtrlPressed
DragEnd(ctrlKey) ==
    /\ activeId # ""
    /\ activeId' = ""
    /\ dragState' = NullDragState
    /\ over' = NullOver
    /\ LET newColumns == IF over = NullOver THEN columns
                         ELSE onDragEndColumns(columns, wipLimit, activeId, dragState,
                                               ctrlKey, nanoid(nextId))
       IN /\ columns' = newColumns
          /\ nextId' = IF nanoid(nextId) \in idsOf(allTasksOf(newColumns))
                          THEN nextId + 1 ELSE nextId
    /\ last' = [NoOp EXCEPT !.op = "onDragEnd", !.id = activeId, !.over = over,
                            !.dragState = dragState, !.ctrlKey = ctrlKey,
                            !.before = columns]
    /\ UNCHANGED <<wipLimit, ops>>
    /\ UNCHANGED saveVars
    /\ UNCHANGED keyVars

MoveToColumn(taskId, targetColId) ==
    /\ ops < MaxOps
    /\ columns' = moveToColumnColumns(columns, wipLimit, taskId, targetColId)
    /\ ops' = ops + 1
    /\ last' = [NoOp EXCEPT !.op = "moveToColumn", !.id = taskId,
                            !.targetColId = targetColId, !.before = columns,
                            !.alerted = moveWipRejected(columns, wipLimit, taskId, targetColId)]
    /\ UNCHANGED <<wipLimit, activeId, over, dragState, nextId>>
    /\ UNCHANGED saveVars
    /\ UNCHANGED keyVars

DeleteTask(taskId) ==
    /\ ops < MaxOps
    /\ columns' = deleteTaskColumns(columns, taskId)
    /\ ops' = ops + 1
    /\ last' = [NoOp EXCEPT !.op = "deleteTask", !.id = taskId, !.before = columns]
    /\ UNCHANGED <<wipLimit, activeId, over, dragState, nextId>>
    /\ UNCHANGED saveVars
    /\ UNCHANGED keyVars

Init == InitFrom(InitialBoards)

Next ==
    \/ \E id \in TaskIds : DragStart(id)
    \/ \E rawOver \in Droppables \cup {NullOver}, overTop \in OverTops, activeCenterY \in CenterYs :
          DragOver(rawOver, overTop, activeCenterY)
    \/ \E ctrlKey \in BOOLEAN : DragEnd(ctrlKey)
    \/ \E taskId \in TaskIds, targetColId \in ColumnIds : MoveToColumn(taskId, targetColId)
    \/ \E taskId \in TaskIds : DeleteTask(taskId)

Spec == Init /\ [][Next]_vars

\* The drag engine against every DragState, not only those the classifier
\* emits for the current forest: the DragState read at release may have been
\* computed against an earlier forest, so its target may be gone, or be the
\* dragged task or one of its descendants.
AnyDragStates ==
    {[type |-> "nest", position |-> "", targetId |-> t] : t \in TaskIds \cup {"gone"}}
    \cup {[type |-> "insert", position |-> p, targetId |-> t] :
             p \in {"top", "bottom"}, t \in TaskIds \cup ColumnIds \cup {"gone"}}

DragOverStale(staleState) ==
    /\ activeId # ""
    /\ over' = [id |-> staleState.targetId, zone |-> ""]
    /\ dragState' = staleState
    /\ UNCHANGED <<columns, wipLimit, activeId, nextId, ops, last>>
    /\ UNCHANGED saveVars
    /\ UNCHANGED keyVars

NextAnyDrag ==
    \/ Next
    \/ \E staleState \in AnyDragStates : DragOverStale(staleState)

SpecAnyDrag == Init /\ [][NextAnyDrag]_vars

\* the same handlers, started from the board of the two-children WIP example
InitTwoChildren == InitFrom(TwoChildrenBoards)

SpecTwoChildren == InitTwoChildren /\ [][Next]_vars

(***************************************************************************)
(* The grouping preview (the autoGroupState effect of hooks/useDnd.ts) and *)
(* the modifier key (useCtrlPress of hooks/useUI.ts).  The effect runs     *)
(* after every render that changed activeId, dragState, isCtrlPressed or   *)
(* the project, so each handler below ends with its result.                *)
(***************************************************************************)
\* the modifier state the effect reads: isCtrlPressed alone
previewCtrl(pressed, activator) == pressed

\* the value the effect hands to setAutoGroupState
autoGroupPreview(cols, active, state, ctrl) ==
    IF active = "" \/ state = NullDragState \/ ~ctrl THEN NullAutoGroup
    ELSE LET allTasks == allTasksOf(cols)
             originalParent == findParent(allTasks, active)
             sourceColumnId == sourceColumnOf(cols, active)
             targetColumnId == IF state.targetId \in ColumnIds THEN state.targetId
                               ELSE sourceColumnOf(cols, state.targetId)
         IN IF originalParent = NoTask
               THEN [type |-> "duplicate", parentId |-> ""]
            ELSE IF sourceColumnId # "" /\ targetColumnId # ""
                    /\ sourceColumnId # targetColumnId
               THEN LET identityId == identityOf(originalParent)
                        matchingParent == findMatchingParent(cols[targetColumnId], identityId)
                    IN IF matchingParent # NoTask
                          THEN [type |-> "group-existing", parentId |-> matchingParent.id]
                          ELSE [type |-> "create-parent", parentId |-> ""]
            ELSE NullAutoGroup

\* handleKeyDown / handleKeyUp of useCtrlPress for a Control or Meta key
handleKey(pressed) ==
    /\ isCtrlPressed # pressed
    /\ isCtrlPressed' = pressed
    /\ autoGroupState' = autoGroupPreview(columns, activeId, dragState,
                                          previewCtrl(pressed, activatorCtrlKey))
    /\ UNCHANGED <<columns, wipLimit, activeId, over, dragState, nextId, ops, last,
                   activatorCtrlKey>>
    /\ UNCHANGED saveVars

\* onDragStart; the pointer-down event carries the modifier state of its moment
KeyedDragStart(id) ==
    /\ ops < MaxOps
    /\ activeId = ""
    /\ activeId' = id
    /\ activatorCtrlKey' = isCtrlPressed
    /\ ops' = ops + 1
    /\ last' = NoOp
    /\ autoGroupState' = autoGroupPreview(columns, id, dragState,
                                          previewCtrl(isCtrlPressed, isCtrlPressed))
    /\ UNCHANGED <<columns, wipLimit, over, dragState, nextId, isCtrlPressed>>
    /\ UNCHANGED saveVars

\* onDragOver
KeyedDragOver(rawOver, overTop, activeCenterY) ==
    /\ activeId # ""
    /\ over' = rawOver
    /\ dragState' = onDragOverState(columns, activeId, rawOver, overTop, activeCenterY)
    /\ autoGroupState' = autoGroupPreview(columns, activeId, dragState',
                                          previewCtrl(isCtrlPressed, activatorCtrlKey))
    /\ UNCHANGED <<columns, wipLimit, activeId, nextId, ops, last, isCtrlPressed,
                   activatorCtrlKey>>
    /\ UNCHANGED saveVars

\* onDragEnd with ctrlKey = activatorEvent.ctrlKey || isCtrlPressed; the preview
\* on screen at the release is kept in the record of the handler
KeyedDragEnd ==
    /\ activeId # ""
    /\ activeId' = ""
    /\ dragState' = NullDragState
    /\ over' = NullOver
    /\ LET ctrlKey == activatorCtrlKey \/ isCtrlPressed
           newColumns == IF over = NullOver THEN columns
                         ELSE onDragEndColumns(columns, wipLimit, activeId, dragState,
                                               ctrlKey, nanoid(nextId))
       IN /\ columns' = newColumns
          /\ nextId' = IF nanoid(nextId) \in idsOf(allTasksOf(newColumns))
                          THEN nextId + 1 ELSE nextId
          /\ last' = [NoOp EXCEPT !.op = "onDragEnd", !.id = activeId, !.over = over,
                                  !.dragState = dragState, !.ctrlKey = ctrlKey,
                                  !.before = columns,
                                  !.isCtrlPressed = isCtrlPressed,
                                  !.autoGroupState = autoGroupState]
    /\ activatorCtrlKey' = FALSE
    /\ autoGroupState' = NullAutoGroup
    /\ UNCHANGED <<wipLimit, ops, isCtrlPressed>>
    /\ UNCHANGED saveVars

NextPreview ==
    \/ \E pressed \in BOOLEAN : handleKey(pressed)
    \/ \E id \in TaskIds : KeyedDragStart(id)
    \/ \E rawOver \in Droppables \cup {NullOver}, overTop \in OverTops, activeCenterY \in CenterYs :
          KeyedDragOver(rawOver, overTop, activeCenterY)
    \/ KeyedDragEnd

SpecPreview == Init /\ [][NextPreview]_vars

(***************************************************************************)
(* Persistence (hooks/useAppData.ts): the load effect, the debounced save  *)
(* effect, doSave with its in-flight / pending flags, and the resolution   *)
(* of saveToServer.  A payload is the AppData handed to saveToServer.      *)
(* An edit is addProject: every edit makes the project list longer, so a   *)
(* payload tells which edits it holds.                                     *)
(***************************************************************************)
MaxEdits == 5

Outcomes == {"success", "failure", "conflict", "exception"}

addProject(d, name, freshId) ==
    [d EXCEPT !.projects = Append(@, Project(freshId, name, 3, EmptyColumns)),
              !.activeProjectId = freshId]

\* variant: the effect's cleanup leaves the old timer running
clearTimeoutForgotten(timers) == timers

\* the cleanup of the save effect, run before the effect runs again
clearTimeout(timers) == 0

\* the save effect against the isLoading of its render; a timer it sets is
\* due after the 100 ms timers pending at that moment
SaveEffect(loading) ==
    IF loading
       THEN /\ debounceTimers' = clearTimeout(debounceTimers)
            /\ debounceAfterRetrigger' = FALSE
            /\ UNCHANGED <<isFirstLoad, ignoreNextSave>>
    ELSE IF isFirstLoad
       THEN /\ isFirstLoad' = FALSE
            /\ debounceTimers' = clearTimeout(debounceTimers)
            /\ debounceAfterRetrigger' = FALSE
            /\ UNCHANGED ignoreNextSave
    ELSE IF ignoreNextSave
       THEN /\ ignoreNextSave' = FALSE
            /\ debounceTimers' = clearTimeout(debounceTimers)
            /\ debounceAfterRetrigger' = FALSE
            /\ UNCHANGED isFirstLoad
    ELSE /\ debounceTimers' = clearTimeout(debounceTimers) + 1
         /\ debounceAfterRetrigger' = (retriggerTimers > 0)
         /\ UNCHANGED <<isFirstLoad, ignoreNextSave>>

\* variant: doSave never defers to the save in flight
doSaveDeferredNever == FALSE

\* the `if (isSaving.current)` test of doSave
doSaveDeferred == isSaving

\* doSave up to its await: mark pending, or start the request with latestData
DoSave(kind) ==
    LET event == [NoEvent EXCEPT !.kind = kind, !.wasPending = pendingSave,
                                 !.flightsBefore = Len(inFlight),
                                 !.savesBefore = Len(trace.saveLog)]
    IN IF doSaveDeferred
          THEN /\ pendingSave' = TRUE
               /\ trace' = [trace EXCEPT !.event = event]
               /\ UNCHANGED <<isSaving, saveStatus, inFlight>>
          ELSE /\ isSaving' = TRUE
               /\ pendingSave' = FALSE
               /\ saveStatus' = "saving"
               /\ inFlight' = Append(inFlight, latestData)
               /\ trace' = [trace EXCEPT !.saveLog = Append(@, latestData),
                                         !.event = [event EXCEPT !.started = TRUE]]

\* the load effect resolves: setData, setIsLoading(false), then the effects
LoadDone(loaded) ==
    /\ isLoading
    /\ data' = loaded
    /\ latestData' = loaded
    /\ isLoading' = FALSE
    /\ SaveEffect(FALSE)
    /\ trace' = [trace EXCEPT !.event = [NoEvent EXCEPT !.kind = "load"]]
    /\ UNCHANGED <<isSaving, pendingSave, saveStatus, retriggerTimers, effectsPending, inFlight>>
    /\ UNCHANGED dragVars
    /\ UNCHANGED keyVars

\* the burst of edits an edit belongs to: it opens one when no debounce timer
\* is pending, and continues the open one otherwise
burstAfterEdit ==
    IF debounceTimers = 0
       THEN IF isSaving \/ inFlight # <<>> THEN NoBurst
            ELSE [active |-> TRUE, quiet |-> retriggerTimers = 0,
                  saves |-> Len(trace.saveLog), edits |-> 1]
    ELSE IF trace.burst.active THEN [trace.burst EXCEPT !.edits = @ + 1]
    ELSE NoBurst

\* an edit (addProject) with the effects of its render; effects still pending
\* from doSave's setData are flushed first
AddProject(name) ==
    /\ ~isLoading
    /\ nextId < MaxEdits
    /\ data' = addProject(data, name, nanoid(nextId))
    /\ nextId' = nextId + 1
    /\ latestData' = data'
    /\ IF effectsPending
          THEN /\ effectsPending' = FALSE
               /\ ignoreNextSave' = FALSE
               /\ debounceTimers' = clearTimeout(clearTimeout(debounceTimers)) + 1
               /\ debounceAfterRetrigger' = (retriggerTimers > 0)
               /\ UNCHANGED isFirstLoad
          ELSE /\ SaveEffect(FALSE)
               /\ UNCHANGED effectsPending
    /\ trace' = [trace EXCEPT !.event = [NoEvent EXCEPT !.kind = "edit"],
                              !.burst = burstAfterEdit,
                              !.fail = NoFail]
    /\ UNCHANGED <<isLoading, isSaving, pendingSave, saveStatus, retriggerTimers, inFlight>>
    /\ UNCHANGED <<columns, wipLimit, activeId, over, dragState, ops, last>>
    /\ UNCHANGED keyVars

\* the 1000 ms timer of the save effect fires
DebounceFire ==
    /\ debounceTimers > 0
    /\ ~debounceAfterRetrigger
    /\ debounceTimers' = debounceTimers - 1
    /\ DoSave("debounce")
    /\ UNCHANGED <<data, latestData, isLoading, isFirstLoad, ignoreNextSave,
                   retriggerTimers, debounceAfterRetrigger, effectsPending>>
    /\ UNCHANGED dragVars
    /\ UNCHANGED keyVars

\* the 100 ms timer set by doSave's finally block fires
RetriggerFire ==
    /\ retriggerTimers > 0
    /\ retriggerTimers' = retriggerTimers - 1
    /\ debounceAfterRetrigger' = (debounceAfterRetrigger /\ retriggerTimers' > 0)
    /\ DoSave("retrigger")
    /\ UNCHANGED <<data, latestData, isLoading, isFirstLoad, ignoreNextSave,
                   debounceTimers, effectsPending>>
    /\ UNCHANGED dragVars
    /\ UNCHANGED keyVars

\* the sequence without its i-th element
dropAt(seq, i) == SubSeq(seq, 1, i - 1) \o SubSeq(seq, i + 1, Len(seq))

\* variant: the finally block re-triggers whatever the pending flag says
retriggerAfterAlways(pending, timers) == timers + 1

\* the finally block of doSave: one 100 ms timer when a save is pending
retriggerAfter(pending, timers) == IF pending THEN timers + 1 ELSE timers

\* variant: a failed save is retried at once
retryOnFailure(timers) == timers + 1

\* the else and catch branches of doSave set no timer
noRetryOnFailure(timers) == timers

\* saveToServer resolves and doSave runs on from its await; a successful
\* saveToServer has written the new version into the object it was given
SaveResolve(i, outcome) ==
    /\ i \in 1..Len(inFlight)
    /\ inFlight' = dropAt(inFlight, i)
    /\ LET payload == inFlight[i]
           newVersion == payload.version + 1
       IN IF outcome = "success"
             THEN /\ saveStatus' = "saved"
                  /\ ignoreNextSave' = TRUE
                  /\ data' = [data EXCEPT !.version = newVersion]
                  /\ latestData' = IF latestData = payload
                                      THEN [latestData EXCEPT !.version = newVersion]
                                      ELSE latestData
                  /\ effectsPending' = TRUE
                  /\ retriggerTimers' = retriggerAfter(pendingSave, retriggerTimers)
             ELSE /\ saveStatus' = "error"
                  /\ retriggerTimers' = retriggerAfter(pendingSave,
                                                       noRetryOnFailure(retriggerTimers))
                  /\ UNCHANGED <<ignoreNextSave, data, latestData, effectsPending>>
    /\ isSaving' = FALSE
    /\ trace' = [trace EXCEPT
                   !.event = [NoEvent EXCEPT !.kind = "resolve", !.outcome = outcome,
                                             !.wasPending = pendingSave,
                                             !.flightsBefore = Len(inFlight),
                                             !.timersBefore = retriggerTimers,
                                             !.savesBefore = Len(trace.saveLog),
                                             !.dataBefore = data],
                   !.fail = IF outcome # "success" /\ ~pendingSave
                               THEN [set |-> TRUE,
                                     quiet |-> debounceTimers = 0 /\ retriggerTimers = 0,
                                     saves |-> Len(trace.saveLog)]
                               ELSE NoFail]
    /\ UNCHANGED <<isLoading, isFirstLoad, pendingSave, debounceTimers,
                   debounceAfterRetrigger>>
    /\ UNCHANGED dragVars
    /\ UNCHANGED keyVars

\* the effects of the render that doSave's setData caused
RunEffects ==
    /\ effectsPending
    /\ effectsPending' = FALSE
    /\ latestData' = data
    /\ SaveEffect(isLoading)
    /\ trace' = [trace EXCEPT !.event = [NoEvent EXCEPT !.kind = "effects"]]
    /\ UNCHANGED <<data, isLoading, isSaving, pendingSave, saveStatus, retriggerTimers, inFlight>>
    /\ UNCHANGED dragVars
    /\ UNCHANGED keyVars

LoadedDatas == {EmptyLoaded, LoadedWith([columns |-> BoardFlat, wipLimit |-> 1])}

InitSave ==
    /\ columns = EmptyColumns
    /\ wipLimit = 3
    /\ activeId = ""
    /\ over = NullOver
    /\ dragState = NullDragState
    /\ nextId = 0
    /\ ops = 0
    /\ last = NoOp
    /\ KeysIdle
    /\ data = INITIAL_DATA
    /\ latestData = INITIAL_DATA
    /\ isLoading = TRUE
    /\ isFirstLoad = TRUE
    /\ isSaving = FALSE
    /\ pendingSave = FALSE
    /\ ignoreNextSave = FALSE
    /\ saveStatus = "idle"
    /\ debounceTimers = 0
    /\ retriggerTimers = 0
    /\ debounceAfterRetrigger = FALSE
    /\ effectsPending = FALSE
    /\ inFlight = <<>>
    /\ trace = [saveLog |-> <<>>, event |-> NoEvent, burst |-> NoBurst, fail |-> NoFail]

NextSave ==
    \/ \E loaded \in LoadedDatas : LoadDone(loaded)
    \/ AddProject("p")
    \/ DebounceFire
    \/ RetriggerFire
    \/ \E i \in 1..Len(inFlight), outcome \in Outcomes : SaveResolve(i, outcome)
    \/ RunEffects

SpecSave == InitSave /\ [][NextSave]_vars

(***************************************************************************)
(* Vocabulary of the properties                                            *)
(***************************************************************************)
RECURSIVE occurrences(_, _)
occurrences(tasks, id) ==
    IF tasks = <<>> THEN 0
    ELSE (IF Head(tasks).id = id THEN 1 ELSE 0)
         + occurrences(Head(tasks).children, id)
         + occurrences(Tail(tasks), id)

RECURSIVE nodeCount(_)
nodeCount(tasks) ==
    IF tasks = <<>> THEN 0
    ELSE 1 + nodeCount(Head(tasks).children) + nodeCount(Tail(tasks))

\* number of tasks of a forest whose id or sourceId is the identity
RECURSIVE carrying(_, _)
carrying(tasks, identityId) ==
    IF tasks = <<>> THEN 0
    ELSE (IF Head(tasks).id = identityId \/ Head(tasks).sourceId = identityId THEN 1 ELSE 0)
         + carrying(Head(tasks).children, identityId)
         + carrying(Tail(tasks), identityId)

\* the column map with every occurrence of the task (and its subtree) cut out
without(cols, id) == [k \in ColumnIds |-> removeTask(cols[k], id)]

\* the column holding a task, "" when none does
columnOf(cols, id) ==
    IF \E k \in ColumnIds : findTask(cols[k], id) # NoTask
       THEN CHOOSE k \in ColumnIds : findTask(cols[k], id) # NoTask
       ELSE ""

leafContribution(task) ==
    IF Len(task.children) = 0 THEN 1 ELSE countLeaves(task.children)

\* the last handler was a drag-end that went past its `if (!over) return`
\* with the dragged task present on the board
DragEndActed ==
    /\ last.op = "onDragEnd"
    /\ last.over # NullOver
    /\ findTask(allTasksOf(last.before), last.id) # NoTask

\* that drag-end made a duplicate (modifier held, dragged task top-level)
DragEndDuplicated ==
    /\ DragEndActed
    /\ last.ctrlKey
    /\ findParent(allTasksOf(last.before), last.id) = NoTask

\* the column a drag-end with a DragState delivers to: the targeted column,
\* or the column holding the targeted task, "" when the target is gone
DragEndDestination ==
    IF last.dragState = NullDragState THEN ""
    ELSE IF last.dragState.targetId \in ColumnIds THEN last.dragState.targetId
    ELSE IF DragEndDuplicated THEN columnOf(last.before, last.dragState.targetId)
    ELSE columnOf(without(last.before, last.id), last.dragState.targetId)

\* the last handler was moveToColumn of a task present on the board
MoveActed ==
    /\ last.op = "moveToColumn"
    /\ findTask(allTasksOf(last.before), last.id) # NoTask

(***************************************************************************)
(* Task and project operations of hooks/useAppData.ts on the AppData, and  *)
(* the YAML import of components/modals/YamlModal.tsx                      *)
(***************************************************************************)
\* the task addTask and addChildTask make (no sourceId, not expanded)
newTask(id, content) ==
    [id |-> id, sourceId |-> "", content |-> content, isExpanded |-> FALSE,
     children |-> <<>>]

addTaskColumns(cols, columnId, task) == [cols EXCEPT ![columnId] = Append(@, task)]

\* { ...t, ...updates }
merged(t, updates) ==
    [f \in DOMAIN t |-> IF f \in DOMAIN updates THEN updates[f] ELSE t[f]]

RECURSIVE updateRecursive(_, _, _)
updateRecursive(tasks, taskId, updates) ==
    IF tasks = <<>> THEN <<>>
    ELSE LET t == Head(tasks)
         IN <<IF t.id = taskId THEN merged(t, updates)
              ELSE [t EXCEPT !.children = updateRecursive(@, taskId, updates)]>>
            \o updateRecursive(Tail(tasks), taskId, updates)

updateTaskColumns(cols, taskId, updates) ==
    [k \in ColumnIds |-> updateRecursive(cols[k], taskId, updates)]

RECURSIVE addRecursive(_, _, _)
addRecursive(tasks, parentId, newChild) ==
    IF tasks = <<>> THEN <<>>
    ELSE LET t == Head(tasks)
         IN <<IF t.id = parentId
                 THEN [t EXCEPT !.children = Append(@, newChild), !.isExpanded = TRUE]
                 ELSE [t EXCEPT !.children = addRecursive(@, parentId, newChild)]>>
            \o addRecursive(Tail(tasks), parentId, newChild)

addChildTaskColumns(cols, parentId, newChild) ==
    [k \in ColumnIds |-> addRecursive(cols[k], parentId, newChild)]

\* variant: the copies of the children keep the children's ids
RECURSIVE deepCloneKeepsChildIds(_, _)
deepCloneKeepsChildIds(tasks, n) ==
    IF tasks = <<>> THEN <<>>
    ELSE LET t == Head(tasks)
         IN <<[t EXCEPT !.id = nanoid(n),
                        !.content = @ \o " (Copy)"]>>
            \o deepCloneKeepsChildIds(Tail(tasks), n + 1)

\* t.children.map(deepClone): nanoid() is called for a task before it is
\* called for its children, and for the tasks of a list from first to last;
\* n ids were handed out before
RECURSIVE deepClone(_, _)
deepClone(tasks, n) ==
    IF tasks = <<>> THEN <<>>
    ELSE LET t == Head(tasks)
         IN <<[t EXCEPT !.id = nanoid(n),
                        !.content = @ \o " (Copy)",
                        !.children = deepClone(@, n + 1)]>>
            \o deepClone(Tail(tasks), n + nodeCount(<<t>>))

\* newCols[k] = [...newCols[k], foundClone]
appendedToColumn(tasks, taskId, copy) == Append(tasks, copy)

\* cloneTask on the columns of a project: deepClone runs once for every column
\* that holds the task, the last copy is kept and appended to each such column
cloneTaskColumns(cols, taskId, n) ==
    LET hits == {i \in 1..Len(ColumnOrder) : findTask(cols[ColumnOrder[i]], taskId) # NoTask}
    IN IF hits = {} THEN cols
       ELSE LET lastHit == CHOOSE i \in hits : \A j \in hits : j <= i
                t == findTask(cols[ColumnOrder[lastHit]], taskId)
                foundClone == deepClone(<<t>>, n + (Cardinality(hits) - 1) * nodeCount(<<t>>))[1]
            IN [k \in ColumnIds |->
                  IF findTask(cols[k], taskId) # NoTask
                     THEN appendedToColumn(cols[k], taskId, foundClone)
                     ELSE cols[k]]

\* variant: an unknown project id falls on every project
addressedAlways(p, projectId) == TRUE

\* the test `p.id !== projectId` of every operation
addressed(p, projectId) == p.id = projectId

\* variant: the addressed project also becomes the active one
withColumnsActivating(d, projectId, cols) ==
    [d EXCEPT !.activeProjectId = projectId,
              !.projects =
        [i \in 1..Len(d.projects) |->
            IF addressed(d.projects[i], projectId)
               THEN [d.projects[i] EXCEPT !.columns = cols[i]]
               ELSE d.projects[i]]]

\* prev.projects.map(p => p.id !== projectId ? p : { ...p, columns: cols[p] }),
\* cols giving, by position, the new columns computed from each project
withColumns(d, projectId, cols) ==
    [d EXCEPT !.projects =
        [i \in 1..Len(d.projects) |->
            IF addressed(d.projects[i], projectId)
               THEN [d.projects[i] EXCEPT !.columns = cols[i]]
               ELSE d.projects[i]]]

addTask(d, projectId, columnId, task) ==
    withColumns(d, projectId,
        [i \in 1..Len(d.projects) |->
            addTaskColumns(d.projects[i].columns, columnId, task)])

updateTask(d, projectId, taskId, updates) ==
    withColumns(d, projectId,
        [i \in 1..Len(d.projects) |->
            updateTaskColumns(d.projects[i].columns, taskId, updates)])

addChildTask(d, projectId, parentId, newChild) ==
    withColumns(d, projectId,
        [i \in 1..Len(d.projects) |->
            addChildTaskColumns(d.projects[i].columns, parentId, newChild)])

deleteTask(d, projectId, taskId) ==
    withColumns(d, projectId,
        [i \in 1..Len(d.projects) |->
            deleteTaskColumns(d.projects[i].columns, taskId)])

moveToColumn(d, projectId, taskId, targetColId) ==
    withColumns(d, projectId,
        [i \in 1..Len(d.projects) |->
            moveToColumnColumns(d.projects[i].columns, d.projects[i].wipLimit, taskId, targetColId)])

cloneTask(d, projectId, taskId, n) ==
    withColumns(d, projectId,
        [i \in 1..Len(d.projects) |->
            cloneTaskColumns(d.projects[i].columns, taskId, n)])

updateProjectColumns(d, projectId, newColumns) ==
    withColumns(d, projectId,
        [i \in 1..Len(d.projects) |->
            newColumns])

updateWipLimit(d, projectId, limit) ==
    [d EXCEPT !.projects =
        [i \in 1..Len(d.projects) |->
            IF addressed(d.projects[i], projectId)
               THEN [d.projects[i] EXCEPT !.wipLimit = limit]
               ELSE d.projects[i]]]

\* JavaScript values that are not AppData-shaped objects carry a tag
hasTag(v) == "tag" \in DOMAIN v

jsUndefined == [tag |-> "undefined"]

jsNull == [tag |-> "null"]

\* one project with a task in backlog and another in todo
BoardOther ==
    [EmptyColumns EXCEPT !["backlog"] = <<Task("u1", "", <<>>)>>,
                         !["todo"] = <<Task("u2", "", <<>>)>>]

\* the texts put into the YAML modal
ImportTexts ==
    { "", "null", "0", "projects: [unclosed", "hello", "42", "[]", "theme: dark",
      "projects: [{id: p9, name: x}]",
      "projects: [{id: p9, columns: {backlog: [{id: t9}], todo: [], in-progress: [], done: []}}]",
      "dump of an AppData without projects",
      "dump of an AppData with one project" }

\* yaml.load of js-yaml on these texts; it throws on the unclosed sequence
yamlLoad(text) ==
    CASE text = "" -> jsUndefined
      [] text = "null" -> jsNull
      [] text = "0" -> [tag |-> "number", value |-> 0]
      [] text = "projects: [unclosed" -> [tag |-> "throws"]
      [] text = "hello" -> [tag |-> "string", text |-> "hello"]
      [] text = "42" -> [tag |-> "number", value |-> 42]
      [] text = "[]" -> [tag |-> "array", items |-> <<>>]
      [] text = "theme: dark" -> [theme |-> "dark"]
      [] text = "projects: [{id: p9, name: x}]" -> [projects |-> <<[id |-> "p9", name |-> "x"]>>]
      [] text = "projects: [{id: p9, columns: {backlog: [{id: t9}], todo: [], in-progress: [], done: []}}]"
            -> [projects |-> <<[id |-> "p9",
                                columns |-> [EmptyColumns EXCEPT !["backlog"] = <<[id |-> "t9"]>>]]>>]
      [] text = "dump of an AppData without projects"
            -> [projects |-> <<>>, activeProjectId |-> "", theme |-> "dark", version |-> 1]
      [] text = "dump of an AppData with one project"
            -> [projects |-> <<Project("p3", "p3", 2, BoardOther)>>,
                activeProjectId |-> "p3", theme |-> "dark", version |-> 1]

\* parseYaml: the value yaml.load returns, null when it throws
parseYaml(yamlString) ==
    LET loaded == yamlLoad(yamlString)
    IN IF hasTag(loaded) /\ loaded.tag = "throws" THEN jsNull ELSE loaded

\* the `if (parsed)` test of handleApply: JavaScript truthiness
truthy(v) ==
    IF hasTag(v)
       THEN /\ v.tag \notin {"undefined", "null"}
            /\ ~(v.tag = "number" /\ v.value = 0)
            /\ ~(v.tag = "string" /\ v.text = "")
       ELSE TRUE

\* the data handleApply leaves in the state
handleApply(d, yamlContent) ==
    LET parsed == parseYaml(yamlContent)
    IN IF truthy(parsed) THEN parsed ELSE d

\* every task of the list has the fields the components read
RECURSIVE wellFormed(_)
wellFormed(tasks) ==
    \A i \in 1..Len(tasks) :
       /\ {"id", "content", "children"} \subseteq DOMAIN tasks[i]
       /\ wellFormed(tasks[i].children)

\* the data renders: a projects list whose projects have the four columns, of
\* well-formed tasks
usable(d) ==
    /\ ~hasTag(d)
    /\ "projects" \in DOMAIN d
    /\ \A i \in 1..Len(d.projects) :
          /\ "columns" \in DOMAIN d.projects[i]
          /\ DOMAIN d.projects[i].columns = ColumnIds
          /\ \A k \in ColumnIds : wellFormed(d.projects[i].columns[k])

\* a setData from an event handler, with the effects of its render
Commit(newData, kind, arg) ==
    /\ data' = newData
    /\ latestData' = newData
    /\ SaveEffect(FALSE)
    /\ ops' = ops + 1
    /\ trace' = [trace EXCEPT !.event = [NoEvent EXCEPT !.kind = kind, !.arg = arg,
                                                        !.dataBefore = data],
                              !.burst = burstAfterEdit,
                              !.fail = NoFail]
    /\ UNCHANGED <<isLoading, isSaving, pendingSave, saveStatus, retriggerTimers,
                   effectsPending, inFlight>>
    /\ UNCHANGED <<columns, wipLimit, activeId, over, dragState, last>>
    /\ UNCHANGED keyVars

\* the "Apply Changes" button of the YAML modal
Apply(yamlContent) ==
    /\ ops < MaxOps
    /\ usable(data)
    /\ IF truthy(parseYaml(yamlContent))
          THEN Commit(handleApply(data, yamlContent), "handleApply", yamlContent)
          ELSE /\ ops' = ops + 1
               /\ trace' = [trace EXCEPT !.event = [NoEvent EXCEPT !.kind = "handleApply",
                                                                   !.arg = yamlContent,
                                                                   !.dataBefore = data]]
               /\ UNCHANGED <<data, latestData, isFirstLoad, ignoreNextSave, debounceTimers,
                              debounceAfterRetrigger, isLoading, isSaving, pendingSave,
                              saveStatus, retriggerTimers, effectsPending, inFlight>>
               /\ UNCHANGED <<columns, wipLimit, activeId, over, dragState, last>>
               /\ UNCHANGED keyVars
    /\ UNCHANGED nextId

CallAddTask(projectId, columnId, content) ==
    /\ ops < MaxOps
    /\ usable(data)
    /\ Commit(addTask(data, projectId, columnId, newTask(nanoid(nextId), content)),
              "addTask", projectId)
    /\ nextId' = nextId + 1

CallUpdateTask(projectId, taskId, updates) ==
    /\ ops < MaxOps
    /\ usable(data)
    /\ Commit(updateTask(data, projectId, taskId, updates), "updateTask", projectId)
    /\ UNCHANGED nextId

CallAddChildTask(projectId, parentId, content) ==
    /\ ops < MaxOps
    /\ usable(data)
    /\ Commit(addChildTask(data, projectId, parentId, newTask(nanoid(nextId), content)),
              "addChildTask", projectId)
    /\ nextId' = nextId + 1

CallDeleteTask(projectId, taskId) ==
    /\ ops < MaxOps
    /\ usable(data)
    /\ Commit(deleteTask(data, projectId, taskId), "deleteTask", projectId)
    /\ UNCHANGED nextId

CallMoveToColumn(projectId, taskId, targetColId) ==
    /\ ops < MaxOps
    /\ usable(data)
    /\ Commit(moveToColumn(data, projectId, taskId, targetColId), "moveToColumn", projectId)
    /\ UNCHANGED nextId

\* the ids cloneTask takes are those that appear in its result
CallCloneTask(projectId, taskId) ==
    /\ ops < MaxOps
    /\ usable(data)
    /\ LET newData == cloneTask(data, projectId, taskId, nextId)
           used(p) == Cardinality(idsOf(allTasksOf(p.columns))
                                  \cap {nanoid(n) : n \in nextId..(Len(FreshIds) - 1)})
       IN /\ Commit(newData, "cloneTask", projectId)
          /\ nextId' = nextId + (IF \E i \in 1..Len(newData.projects) :
                                        used(newData.projects[i]) > 0
                                    THEN used(newData.projects[
                                            CHOOSE i \in 1..Len(newData.projects) :
                                               used(newData.projects[i]) > 0])
                                    ELSE 0)

CallUpdateWipLimit(projectId, limit) ==
    /\ ops < MaxOps
    /\ usable(data)
    /\ Commit(updateWipLimit(data, projectId, limit), "updateWipLimit", projectId)
    /\ UNCHANGED nextId

CallUpdateProjectColumns(projectId, newColumns) ==
    /\ ops < MaxOps
    /\ usable(data)
    /\ Commit(updateProjectColumns(data, projectId, newColumns), "updateProjectColumns",
              projectId)
    /\ UNCHANGED nextId

\* two projects; the first is the active one
AppTwoProjects ==
    [projects |-> <<Project("p1", "p1", 3, BoardPair), Project("p2", "p2", 1, BoardOther)>>,
     activeProjectId |-> "p1", theme |-> "light", version |-> 1]

\* one project, with the board of the two-children example
AppOneProject == LoadedWith([columns |-> BoardTwoChildren, wipLimit |-> 3])

AppDatas == {AppTwoProjects, AppOneProject}

InitApp ==
    /\ \E d \in AppDatas : /\ LoadedIdle(d)
                           /\ columns = d.projects[1].columns
                           /\ wipLimit = d.projects[1].wipLimit
    /\ activeId = ""
    /\ over = NullOver
    /\ dragState = NullDragState
    /\ nextId = 0
    /\ ops = 0
    /\ last = NoOp
    /\ KeysIdle

\* the project ids a caller may pass: those of the projects and one of none
ProjectIdsOf(d) ==
    IF usable(d) THEN {d.projects[i].id : i \in 1..Len(d.projects)} \cup {"nope"}
    ELSE {}

\* the task ids a caller may pass: those of every project and one of none
TaskIdsOf(d) ==
    IF usable(d)
       THEN UNION {idsOf(allTasksOf(d.projects[i].columns)) : i \in 1..Len(d.projects)}
            \cup {"gone"}
       ELSE {}

NextApp ==
    \/ \E yamlContent \in ImportTexts : Apply(yamlContent)
    \/ \E projectId \in ProjectIdsOf(data), columnId \in ColumnIds :
          CallAddTask(projectId, columnId, "new")
    \/ \E projectId \in ProjectIdsOf(data), taskId \in TaskIdsOf(data),
          updates \in {[content |-> "edited"], [isExpanded |-> TRUE]} :
          CallUpdateTask(projectId, taskId, updates)
    \/ \E projectId \in ProjectIdsOf(data), parentId \in TaskIdsOf(data) :
          CallAddChildTask(projectId, parentId, "new")
    \/ \E projectId \in ProjectIdsOf(data), taskId \in TaskIdsOf(data) :
          CallDeleteTask(projectId, taskId)
    \/ \E projectId \in ProjectIdsOf(data), taskId \in TaskIdsOf(data),
          targetColId \in ColumnIds :
          CallMoveToColumn(projectId, taskId, targetColId)
    \/ \E projectId \in ProjectIdsOf(data), taskId \in TaskIdsOf(data) :
          CallCloneTask(projectId, taskId)
    \/ \E projectId \in ProjectIdsOf(data), limit \in {1, 5} :
          CallUpdateWipLimit(projectId, limit)
    \/ \E projectId \in ProjectIdsOf(data), newColumns \in {EmptyColumns, BoardFlat} :
          CallUpdateProjectColumns(projectId, newColumns)

SpecApp == InitApp /\ [][NextApp]_vars

(***************************************************************************)
(* The task operations on the board of the active project, next to the     *)
(* drag handlers                                                           *)
(***************************************************************************)
AddTask(columnId, content) ==
    /\ ops < MaxOps
    /\ columns' = addTaskColumns(columns, columnId, newTask(nanoid(nextId), content))
    /\ nextId' = nextId + 1
    /\ ops' = ops + 1
    /\ last' = [NoOp EXCEPT !.op = "addTask", !.targetColId = columnId, !.before = columns]
    /\ UNCHANGED <<wipLimit, activeId, over, dragState>>
    /\ UNCHANGED saveVars
    /\ UNCHANGED keyVars

AddChildTask(parentId, content) ==
    /\ ops < MaxOps
    /\ columns' = addChildTaskColumns(columns, parentId, newTask(nanoid(nextId), content))
    /\ nextId' = nextId + 1
    /\ ops' = ops + 1
    /\ last' = [NoOp EXCEPT !.op = "addChildTask", !.id = parentId, !.before = columns]
    /\ UNCHANGED <<wipLimit, activeId, over, dragState>>
    /\ UNCHANGED saveVars
    /\ UNCHANGED keyVars

\* deepClone calls nanoid() once for every task of the subtree it copies
CloneTask(taskId) ==
    /\ ops < MaxOps
    /\ columns' = cloneTaskColumns(columns, taskId, nextId)
    /\ nextId' = nextId + nodeCount(<<findTask(allTasksOf(columns), taskId)>>)
                          * occurrences(allTasksOf(columns), taskId)
    /\ ops' = ops + 1
    /\ last' = [NoOp EXCEPT !.op = "cloneTask", !.id = taskId, !.before = columns]
    /\ UNCHANGED <<wipLimit, activeId, over, dragState>>
    /\ UNCHANGED saveVars
    /\ UNCHANGED keyVars

ForestBoards ==
    { [columns |-> BoardFamily, wipLimit |-> 3],
      [columns |-> BoardFlat, wipLimit |-> 1] }

InitForest == InitFrom(ForestBoards)

NextForest ==
    \/ NextAnyDrag
    \/ \E columnId \in ColumnIds : AddTask(columnId, "new")
    \/ \E parentId \in TaskIds : AddChildTask(parentId, "new")
    \/ \E taskId \in TaskIds : CloneTask(taskId)
    \/ DeleteTask("gone")

SpecForest == InitForest /\ [][NextForest]_vars

(***************************************************************************)
(* C1: the in-progress column never holds more than wipLimit leaf tasks,   *)
(* whatever sequence of drag-end commits and moveToColumn calls is applied *)
(* to a board that starts within the limit.                                *)
(***************************************************************************)
C1_WipInvariant == countLeaves(columns["in-progress"]) <= wipLimit

(***************************************************************************)
(* C2: a drag-end whose destination is the in-progress column and whose    *)
(* dragged task would take the column above wipLimit (leaves of the column *)
(* without the dragged task, plus the incoming leaf contribution) leaves   *)
(* the column map exactly as it was.                                       *)
(***************************************************************************)
C2_DragEndAdmission ==
    ( /\ DragEndActed
      /\ DragEndDestination = "in-progress"
      /\ countLeaves(without(last.before, last.id)["in-progress"])
           + (IF DragEndDuplicated THEN 1
              ELSE leafContribution(findTask(allTasksOf(last.before), last.id)))
           > wipLimit )
    => columns = last.before

(***************************************************************************)
(* C3: moveToColumn into in-progress over the limit returns the project    *)
(* unchanged; every other moveToColumn removes the task from its old place *)
(* and makes it, subtree intact, the last top-level task of the target.    *)
(***************************************************************************)
C3_MoveToColumn ==
    MoveActed =>
        LET task == findTask(allTasksOf(last.before), last.id)
            overLimit == /\ last.targetColId = "in-progress"
                         /\ countLeaves(last.before["in-progress"]) + leafContribution(task)
                              > wipLimit
            target == columns[last.targetColId]
        IN IF overLimit
              THEN columns = last.before
              ELSE /\ Len(target) > 0
                   /\ target[Len(target)] = task
                   /\ occurrences(allTasksOf(columns), last.id) = 1
                   /\ idsOf(allTasksOf(columns)) = idsOf(allTasksOf(last.before))
                   /\ nodeCount(allTasksOf(columns)) = nodeCount(allTasksOf(last.before))
                   /\ without(columns, last.id) = without(last.before, last.id)

\* with wipLimit = 3 and three leaves in progress, the move of a fourth leaf
\* was rejected and the column still holds exactly three tasks
C3_WitnessRejected ==
    /\ MoveActed
    /\ last.targetColId = "in-progress"
    /\ last.alerted
    /\ wipLimit = 3
    /\ columnOf(last.before, last.id) = "todo"
    /\ findTask(allTasksOf(last.before), last.id).children = <<>>
    /\ Len(columns["in-progress"]) = 3
    /\ countLeaves(columns["in-progress"]) = 3
    /\ columnOf(columns, last.id) = "todo"

\* a task with children was moved, children and all, to the end of a column
C3_WitnessMoved ==
    /\ MoveActed
    /\ ~last.alerted
    /\ columnOf(last.before, last.id) # last.targetColId
    /\ Len(columns[last.targetColId]) > 1
    /\ columns[last.targetColId][Len(columns[last.targetColId])].id = last.id
    /\ Len(columns[last.targetColId][Len(columns[last.targetColId])].children) > 0

(***************************************************************************)
(* C4: with exactly one leaf in progress, moving a task that has two leaf  *)
(* children (and no other descendants) into in-progress is rejected when   *)
(* wipLimit = 3 and succeeds when wipLimit = 4.                            *)
(***************************************************************************)
\* a task with exactly two children, both leaves, that is not in progress yet
\* enters an in-progress column holding exactly one leaf
TwoChildrenCase(id) ==
    LET task == findTask(allTasksOf(last.before), id)
    IN /\ countLeaves(last.before["in-progress"]) = 1
       /\ columnOf(last.before, id) # "in-progress"
       /\ Len(task.children) = 2
       /\ \A i \in 1..2 : task.children[i].children = <<>>

\* the task sits in the in-progress column, children and all, exactly once
AdmittedInProgress(id) ==
    /\ columnOf(columns, id) = "in-progress"
    /\ findTask(allTasksOf(columns), id) = findTask(allTasksOf(last.before), id)
    /\ occurrences(allTasksOf(columns), id) = 1
    /\ countLeaves(columns["in-progress"]) = 3

\* the statement as claimed: rejected at limit 3, admitted at limit 4
C4_AsClaimed ==
    (MoveActed /\ last.targetColId = "in-progress" /\ TwoChildrenCase(last.id))
    => /\ wipLimit = 3 => columns = last.before
       /\ wipLimit = 4 => AdmittedInProgress(last.id)

\* amended: the move is admitted at limit 3 as well as at limit 4 (1 + 2 = 3
\* does not exceed 3), by moveToColumn and by an insert drop alike
C4_TwoChildrenAdmitted ==
    ( /\ wipLimit \in {3, 4}
      /\ \/ MoveActed /\ last.targetColId = "in-progress"
         \/ /\ DragEndActed /\ ~last.ctrlKey
            /\ last.dragState.type = "insert"
            /\ DragEndDestination = "in-progress"
      /\ TwoChildrenCase(last.id) )
    => AdmittedInProgress(last.id)

C4_Witness ==
    /\ wipLimit = 3
    /\ MoveActed /\ last.targetColId = "in-progress"
    /\ TwoChildrenCase(last.id)
    /\ ~last.alerted
    /\ Len(columns["in-progress"]) = 2
    /\ columns["in-progress"][2].id = last.id
    /\ Len(columns["in-progress"][2].children) = 2

(***************************************************************************)
(* C5: moveToColumn into in-progress is rejected exactly when the leaves   *)
(* of the in-progress column with the moved task already removed, plus the *)
(* incoming leaf contribution, exceed wipLimit (the rule of the drag       *)
(* engine); a task already in progress is not charged for its own leaves.  *)
(***************************************************************************)
C5_SameRuleAsEngine ==
    (MoveActed /\ last.targetColId = "in-progress")
    => ( last.alerted
         <=> countLeaves(without(last.before, last.id)["in-progress"])
               + leafContribution(findTask(allTasksOf(last.before), last.id))
             > wipLimit )

(***************************************************************************)
(* C6: a drag released over the dragged task itself or over one of its     *)
(* descendants (drop target present, no DragState emitted) leaves the      *)
(* column map unchanged, with or without the modifier key.                 *)
(***************************************************************************)
C6_SelfDropNoOp ==
    ( /\ DragEndActed
      /\ last.dragState = NullDragState
      /\ \/ last.over.id = last.id
         \/ isDescendant(allTasksOf(last.before), last.id, last.over.id) )
    => columns = last.before

(***************************************************************************)
(* C7: with task A holding child B in backlog and todo empty, a modifier   *)
(* drag of B onto todo yields a todo column with exactly one top-level     *)
(* task whose sourceId is A's identity and whose only child is a duplicate *)
(* of B, while the backlog column is unchanged (A still has B).            *)
(***************************************************************************)
\* a modifier drag of a child of a top-level backlog task onto the empty todo
GroupedDragCase ==
    /\ DragEndActed
    /\ last.ctrlKey
    /\ last.before["todo"] = <<>>
    /\ last.dragState.targetId = "todo"
    /\ \E i \in 1..Len(last.before["backlog"]) :
          \E j \in 1..Len(last.before["backlog"][i].children) :
             last.before["backlog"][i].children[j].id = last.id

\* the statement as claimed: B is duplicated, backlog untouched
C7_AsClaimed ==
    GroupedDragCase =>
        LET A == findParent(last.before["backlog"], last.id)
            B == findTask(last.before["backlog"], last.id)
            todo == columns["todo"]
        IN /\ Len(todo) = 1
           /\ todo[1].sourceId = identityOf(A)
           /\ Len(todo[1].children) = 1
           /\ todo[1].children[1].id # B.id
           /\ todo[1].children[1].sourceId = identityOf(B)
           /\ todo[1].children[1].content = B.content
           /\ columns["backlog"] = last.before["backlog"]

\* amended: B itself is moved under the new parent copy, and A loses it
C7_GroupedMove ==
    GroupedDragCase =>
        LET A == findParent(last.before["backlog"], last.id)
            B == findTask(last.before["backlog"], last.id)
            todo == columns["todo"]
        IN /\ Len(todo) = 1
           /\ todo[1].id \notin idsOf(allTasksOf(last.before))
           /\ todo[1].sourceId = identityOf(A)
           /\ todo[1].content = A.content
           /\ todo[1].children = <<B>>
           /\ occurrences(allTasksOf(columns), last.id) = 1
           /\ columns["backlog"] = without(last.before, last.id)["backlog"]
           /\ findParent(columns["backlog"], last.id) = NoTask
           /\ findTask(columns["backlog"], A.id) # NoTask
           /\ columns["in-progress"] = last.before["in-progress"]
           /\ columns["done"] = last.before["done"]

C7_Witness ==
    /\ GroupedDragCase
    /\ last.before = BoardPair
    /\ last.id = "b1"
    /\ Len(columns["todo"]) = 1
    /\ columns["todo"][1].sourceId = "a1"
    /\ columns["todo"][1].children[1].id = "b1"
    /\ columns["backlog"][1].id = "a1"
    /\ columns["backlog"][1].children = <<>>

(***************************************************************************)
(* C8: once column C holds a task whose id or sourceId is identity(P), a   *)
(* modifier-held cross-column drag into C of a child of a task with that   *)
(* identity appends the child to that existing task's children and creates *)
(* no further parent copy, so the number of tasks in C carrying that       *)
(* identity does not grow.                                                 *)
(***************************************************************************)
\* a modifier drag of a child of P into another column that already holds a
\* task carrying identity(P)
RegroupCase ==
    /\ DragEndActed
    /\ last.ctrlKey
    /\ findParent(allTasksOf(last.before), last.id) # NoTask
    /\ DragEndDestination # ""
    /\ DragEndDestination # columnOf(last.before, last.id)
    /\ carrying(last.before[DragEndDestination],
                identityOf(findParent(allTasksOf(last.before), last.id))) > 0

\* some task of C that carried the identity gained the child as its last child
\* (and was expanded); no task was created
RegroupedUnderExisting ==
    LET identityId == identityOf(findParent(allTasksOf(last.before), last.id))
        B == findTask(allTasksOf(last.before), last.id)
        C == DragEndDestination
    IN /\ idsOf(allTasksOf(columns)) = idsOf(allTasksOf(last.before))
       /\ nodeCount(allTasksOf(columns)) = nodeCount(allTasksOf(last.before))
       /\ \E m \in idsOf(last.before[C]) :
             LET M == findTask(last.before[C], m)
                 M2 == findTask(columns[C], m)
             IN /\ M.id = identityId \/ M.sourceId = identityId
                /\ M2.children = Append(M.children, B)
                /\ M2.isExpanded

\* the statement as claimed
C8_AsClaimed ==
    RegroupCase =>
        /\ RegroupedUnderExisting
        /\ carrying(columns[DragEndDestination],
                    identityOf(findParent(allTasksOf(last.before), last.id)))
             <= carrying(last.before[DragEndDestination],
                         identityOf(findParent(allTasksOf(last.before), last.id)))

\* amended: the count grows only by the tasks of the dragged subtree that
\* carry the identity themselves
C8_ReusesExistingParent ==
    RegroupCase =>
        /\ RegroupedUnderExisting
        /\ carrying(columns[DragEndDestination],
                    identityOf(findParent(allTasksOf(last.before), last.id)))
             = carrying(last.before[DragEndDestination],
                        identityOf(findParent(allTasksOf(last.before), last.id)))
               + carrying(<<findTask(allTasksOf(last.before), last.id)>>,
                          identityOf(findParent(allTasksOf(last.before), last.id)))

C8_Witness ==
    /\ RegroupCase
    /\ last.before = BoardGrouped
    /\ last.id = "c1"
    /\ Len(columns["todo"]) = 1
    /\ columns["todo"][1].id = "m1"
    /\ Len(columns["todo"][1].children) = 2
    /\ columns["todo"][1].children[2].id = "c1"

(***************************************************************************)
(* C9: a modifier-held drag-end of a task T without parent adds exactly    *)
(* one new task: its id is fresh, its sourceId is T.sourceId if present    *)
(* else T.id, its children are empty and its other fields are T's; T and   *)
(* its whole subtree stay where they were, unchanged.                      *)
(***************************************************************************)
\* the forest with every isExpanded flag cleared
RECURSIVE collapsed(_)
collapsed(tasks) ==
    IF tasks = <<>> THEN <<>>
    ELSE <<[Head(tasks) EXCEPT !.isExpanded = FALSE,
                               !.children = collapsed(Head(tasks).children)]>>
         \o collapsed(Tail(tasks))

C9_TopLevelDuplicate ==
    DragEndDuplicated =>
        LET T == findTask(allTasksOf(last.before), last.id)
            newIds == idsOf(allTasksOf(columns)) \ idsOf(allTasksOf(last.before))
        IN /\ Cardinality(newIds) = 1
           /\ nodeCount(allTasksOf(columns)) = nodeCount(allTasksOf(last.before)) + 1
           /\ \A n \in newIds :
                LET D == findTask(allTasksOf(columns), n)
                IN /\ occurrences(allTasksOf(columns), n) = 1
                   /\ D.sourceId = (IF T.sourceId # "" THEN T.sourceId ELSE T.id)
                   /\ D.children = <<>>
                   /\ D.content = T.content
                   /\ D.isExpanded = T.isExpanded
                   \* apart from the new task (and the expansion of the task
                   \* it was nested into) the board is what it was
                   /\ \A k \in ColumnIds :
                        collapsed(without(columns, n)[k]) = collapsed(last.before[k])
           /\ findTask(allTasksOf(columns), T.id) = T
           /\ occurrences(allTasksOf(columns), T.id) = 1
           /\ findParent(allTasksOf(columns), T.id) = NoTask
           /\ columnOf(columns, T.id) = columnOf(last.before, T.id)

\* a top-level task with children was duplicated into another column
C9_Witness ==
    /\ DragEndDuplicated
    /\ Len(findTask(allTasksOf(last.before), last.id).children) > 0
    /\ nextId = 1
    /\ \E k \in ColumnIds :
          /\ k # columnOf(last.before, last.id)
          /\ Len(columns[k]) > 0
          /\ columns[k][Len(columns[k])].sourceId = last.id
          /\ columns[k][Len(columns[k])].children = <<>>

(***************************************************************************)
(* C10: a drag-end that commits a non-duplicate move loses nothing: for    *)
(* every DragState (also one whose target is gone, or is the dragged task  *)
(* or one of its descendants) the dragged task and each of its descendants *)
(* occur exactly once afterwards, every other task is still present, and   *)
(* when the target cannot be found the dragged task is the last top-level  *)
(* task of backlog.                                                        *)
(***************************************************************************)
\* the DragState names a task that the forest without the dragged subtree
\* does not hold
TargetNotFound ==
    /\ last.dragState # NullDragState
    /\ last.dragState.targetId \notin ColumnIds
    /\ DragEndDestination = ""

C10_NoTaskLost ==
    (DragEndActed /\ ~DragEndDuplicated) =>
        LET T == findTask(allTasksOf(last.before), last.id)
            backlog == columns["backlog"]
        IN /\ \A i \in idsOf(<<T>>) : occurrences(allTasksOf(columns), i) = 1
           /\ \A i \in idsOf(allTasksOf(last.before)) :
                 occurrences(allTasksOf(columns), i) = 1
           /\ findTask(allTasksOf(columns), last.id) = T
           /\ TargetNotFound =>
                 /\ Len(backlog) > 0
                 /\ backlog[Len(backlog)] = T

\* a task with a child, dragged from another column with a DragState that
\* targets its own child, landed at the end of backlog
C10_Witness ==
    /\ DragEndActed /\ ~DragEndDuplicated
    /\ TargetNotFound
    /\ isDescendant(allTasksOf(last.before), last.id, last.dragState.targetId)
    /\ columnOf(last.before, last.id) # "backlog"
    /\ columns["backlog"][Len(columns["backlog"])].id = last.id

(***************************************************************************)
(* C11: at most one save is outstanding: under every interleaving of       *)
(* edits, debounce-timer firings, re-trigger timer firings and save        *)
(* resolutions (success, failure, conflict or exception) there is never    *)
(* more than one saveToServer request in flight.                           *)
(***************************************************************************)
C11_OneSaveInFlight == Len(inFlight) <= 1

\* doSave was called while a request was in flight, and only marked pending
C11_Witness ==
    /\ Len(inFlight) = 1
    /\ trace.event.kind \in {"debounce", "retrigger"}
    /\ ~trace.event.started
    /\ pendingSave
    /\ isSaving

(***************************************************************************)
(* C12: no edit is lost to an in-flight save: once every in-flight save    *)
(* has resolved and every timer has fired, with no further edit, some      *)
(* save has been issued whose payload holds every edit committed to the    *)
(* in-memory state, also an edit made while a save was in flight and whose *)
(* debounce timer had not fired when that save resolved.                   *)
(***************************************************************************)
\* nothing is left to happen until the next edit
Quiescent ==
    /\ ~isLoading
    /\ inFlight = <<>>
    /\ debounceTimers = 0
    /\ retriggerTimers = 0
    /\ ~effectsPending

\* the projects are those of the load unless an edit was committed
Edited == nextId > 0

C12_NoEditLost ==
    (Quiescent /\ Edited) =>
        \E n \in 1..Len(trace.saveLog) : trace.saveLog[n].projects = data.projects

(***************************************************************************)
(* C13: pending coalescing: a doSave requested while a save is in flight   *)
(* starts no concurrent request and sets the pending flag; when the        *)
(* in-flight save resolves (success or failure) exactly one follow-up save *)
(* is started, carrying the latest in-memory state; when no request        *)
(* arrived during the flight, no follow-up save is started.                *)
(***************************************************************************)
\* the edits a payload or the in-memory state holds (all but the version)
editsOf(d) == [projects |-> d.projects, activeProjectId |-> d.activeProjectId,
               theme |-> d.theme]

\* the last handler was a doSave called while a request was in flight
DeferredCall ==
    /\ trace.event.kind \in {"debounce", "retrigger"}
    /\ trace.event.flightsBefore > 0

\* it started no request and set the pending flag
Deferred ==
    /\ ~trace.event.started
    /\ Len(inFlight) = trace.event.flightsBefore
    /\ Len(trace.saveLog) = trace.event.savesBefore
    /\ pendingSave

\* the last handler was the resolution of a save; it started no request itself
\* and scheduled one re-trigger if the pending flag was set, none otherwise
ResolvedWithOneRetrigger ==
    trace.event.kind = "resolve" =>
        /\ Len(trace.saveLog) = trace.event.savesBefore
        /\ ~isSaving
        /\ retriggerTimers = trace.event.timersBefore
                             + (IF trace.event.wasPending THEN 1 ELSE 0)

\* the last handler was a doSave that started a request with the latest state
StartedWithLatest ==
    /\ trace.event.started
    /\ Len(trace.saveLog) = trace.event.savesBefore + 1
    /\ Len(inFlight) = 1
    /\ inFlight[1] = trace.saveLog[Len(trace.saveLog)]
    /\ editsOf(inFlight[1]) = editsOf(data)
    /\ ~pendingSave

OneSaveForBurst ==
    IF debounceTimers > 0
       THEN Len(trace.saveLog) = trace.burst.saves
       ELSE /\ Len(trace.saveLog) = trace.burst.saves + 1
            /\ editsOf(trace.saveLog[Len(trace.saveLog)]) = editsOf(data)

\* the statement as claimed: the burst began with no save in flight
C14_AsClaimed == trace.burst.active => OneSaveForBurst

\* amended: the burst began with no save in flight and no re-trigger pending
C14_Debounce == (trace.burst.active /\ trace.burst.quiet) => OneSaveForBurst

\* five edits in one window, then the window elapsed: one save, with all five
C14_Witness ==
    /\ trace.burst.active /\ trace.burst.quiet
    /\ trace.burst.edits = 5
    /\ debounceTimers = 0
    /\ Len(trace.saveLog) = trace.burst.saves + 1
    /\ Len(trace.saveLog[Len(trace.saveLog)].projects) >= 5
    /\ inFlight = <<data>>

(***************************************************************************)
(* C15: a save failure is surfaced, not retried: when a save resolves with *)
(* failure, a version conflict or an exception and no save was requested   *)
(* during its flight, saveStatus becomes 'error', the in-memory data       *)
(* (projects, activeProjectId, theme, _version) is exactly what it was,    *)
(* the in-flight flag is cleared, and no further save is issued until the  *)
(* next edit.                                                              *)
(***************************************************************************)
\* the last handler was the resolution of a failed save with nothing pending
FailedResolve ==
    /\ trace.event.kind = "resolve"
    /\ trace.event.outcome # "success"
    /\ ~trace.event.wasPending

\* the failure is surfaced and nothing else has changed
Surfaced ==
    /\ saveStatus = "error"
    /\ data = trace.event.dataBefore
    /\ ~isSaving
    /\ inFlight = <<>>
    /\ ~pendingSave
    /\ retriggerTimers = trace.event.timersBefore
    /\ Len(trace.saveLog) = trace.event.savesBefore

\* the statement as claimed
C15_AsClaimed ==
    /\ FailedResolve => Surfaced
    /\ trace.fail.set => Len(trace.saveLog) = trace.fail.saves

\* amended: no further save until the next edit when no debounce or
\* re-trigger timer was pending at the resolution
C15_FailureSurfaced ==
    /\ FailedResolve => Surfaced
    /\ (trace.fail.set /\ trace.fail.quiet) => Len(trace.saveLog) = trace.fail.saves

\* a save was refused for a version conflict: the status shows the error, the
\* data still has the version that was sent, and nothing is left to happen
C15_Witness ==
    /\ FailedResolve
    /\ trace.event.outcome = "conflict"
    /\ trace.fail.set /\ trace.fail.quiet
    /\ saveStatus = "error"
    /\ Quiescent
    /\ Len(trace.saveLog) = 1
    /\ data = trace.saveLog[1]
    /\ Edited

(***************************************************************************)
(* C16: a malformed import never replaces the state: applying imported     *)
(* text replaces the in-memory AppData only if the text parses to a        *)
(* structurally valid AppData (a projects sequence whose projects each     *)
(* have the four columns of well-formed tasks); for every other text,      *)
(* whether it fails to parse or parses to a value of another shape, the    *)
(* in-memory state is exactly the original state.                          *)
(***************************************************************************)
\* the text parses, and to a structurally valid AppData
ParsesToValidAppData(text) ==
    LET loaded == yamlLoad(text)
    IN /\ ~(hasTag(loaded) /\ loaded.tag = "throws")
       /\ usable(loaded)

C16_MalformedImportRejected ==
    (trace.event.kind = "handleApply" /\ ~ParsesToValidAppData(trace.event.arg))
    => data = trace.event.dataBefore

(***************************************************************************)
(* C17: an unknown project id is a no-op: for every AppData and every      *)
(* project id that matches no project, each of addTask, updateTask,        *)
(* addChildTask, deleteTask, cloneTask, moveToColumn, updateWipLimit and   *)
(* updateProjectColumns returns an AppData equal to the input (the same    *)
(* projects in the same order with equal fields, the same activeProjectId  *)
(* and theme).                                                             *)
(***************************************************************************)
ProjectOperations ==
    {"addTask", "updateTask", "addChildTask", "deleteTask", "cloneTask",
     "moveToColumn", "updateWipLimit", "updateProjectColumns"}

\* the last handler was one of the operations, called with an id of no project
UnknownProjectCall ==
    /\ trace.event.kind \in ProjectOperations
    /\ \A i \in 1..Len(trace.event.dataBefore.projects) :
          trace.event.dataBefore.projects[i].id # trace.event.arg

C17_UnknownProjectNoOp == UnknownProjectCall => data = trace.event.dataBefore

\* updateProjectColumns with the id of no project left both projects, with
\* their boards, as they were
C17_Witness ==
    /\ UnknownProjectCall
    /\ trace.event.kind = "updateProjectColumns"
    /\ Len(data.projects) = 2
    /\ data.projects[1].columns = BoardPair
    /\ data.projects[2].columns = BoardOther
    /\ data = AppTwoProjects

(***************************************************************************)
(* C18: cloneTask(id) adds to the forest exactly one deep copy of the      *)
(* subtree rooted at id, in which every task has a fresh id (distinct from *)
(* all existing ids and from each other) and a content suffix; the copy is *)
(* inserted into the sibling list of the original (same column and same    *)
(* parent, also when the original is a nested sub-task), and the original  *)
(* subtree is left unchanged.                                              *)
(***************************************************************************)
\* the last handler was cloneTask of a task present on the board
CloneActed ==
    /\ last.op = "cloneTask"
    /\ findTask(allTasksOf(last.before), last.id) # NoTask

\* copy is orig with ids that are not among oldIds and the suffix on every task
RECURSIVE isDeepCopy(_, _, _)
isDeepCopy(copy, orig, oldIds) ==
    /\ copy.id \notin oldIds
    /\ copy.content = orig.content \o " (Copy)"
    /\ copy.sourceId = orig.sourceId
    /\ copy.isExpanded = orig.isExpanded
    /\ Len(copy.children) = Len(orig.children)
    /\ \A i \in 1..Len(orig.children) :
          isDeepCopy(copy.children[i], orig.children[i], oldIds)

C18_CloneAlongside ==
    CloneActed =>
        LET before == allTasksOf(last.before)
            after == allTasksOf(columns)
            T == findTask(before, last.id)
            newIds == idsOf(after) \ idsOf(before)
        IN /\ Cardinality(newIds) = nodeCount(<<T>>)
           /\ nodeCount(after) = nodeCount(before) + nodeCount(<<T>>)
           /\ \A n \in newIds : occurrences(after, n) = 1
           /\ \E c \in newIds :
                 /\ isDeepCopy(findTask(after, c), T, idsOf(before))
                 /\ columnOf(columns, c) = columnOf(last.before, last.id)
                 /\ findParent(after, c).id = findParent(before, last.id).id
                 /\ \A k \in ColumnIds : removeTask(columns[k], c) = last.before[k]
           /\ findTask(after, last.id) = T

(***************************************************************************)
(* C19: remove then find: for every forest with pairwise distinct ids and  *)
(* every id, removeTask (deleteTask) for that id applied to every column   *)
(* yields a forest in which findTask for that id returns not-found, whose  *)
(* node count is the original count minus the size of the removed subtree  *)
(* (unchanged if the id was absent), and in which every remaining task     *)
(* keeps its fields, its parent and its relative sibling order.            *)
(***************************************************************************)
distinctIds(tasks) == \A i \in idsOf(tasks) : occurrences(tasks, i) = 1

\* the ids of a sibling list, in order
idList(tasks) == [i \in 1..Len(tasks) |-> tasks[i].id]

\* the ids of a sibling list, in order, without the given id
idListWithout(tasks, id) == SelectSeq(idList(tasks), LAMBDA x : x # id)

\* the fields of a task other than its children
fieldsOf(t) == [t EXCEPT !.children = <<>>]

C19_RemoveThenFind ==
    (last.op = "deleteTask" /\ distinctIds(allTasksOf(last.before))) =>
        LET before == allTasksOf(last.before)
            after == allTasksOf(columns)
            T == findTask(before, last.id)
            removed == IF T = NoTask THEN {} ELSE idsOf(<<T>>)
        IN /\ findTask(after, last.id) = NoTask
           /\ nodeCount(after) = nodeCount(before)
                                 - (IF T = NoTask THEN 0 ELSE nodeCount(<<T>>))
           /\ idsOf(after) = idsOf(before) \ removed
           /\ distinctIds(after)
           /\ T = NoTask => columns = last.before
           /\ \A k \in ColumnIds :
                 idList(columns[k]) = idListWithout(last.before[k], last.id)
           /\ \A r \in idsOf(after) :
                 /\ fieldsOf(findTask(after, r)) = fieldsOf(findTask(before, r))
                 /\ findParent(after, r).id = findParent(before, r).id
                 /\ columnOf(columns, r) = columnOf(last.before, r)
                 /\ idList(findTask(after, r).children)
                      = idListWithout(findTask(before, r).children, last.id)

\* a task with two children was deleted: three tasks fewer, none of them found
C19_Witness ==
    /\ last.op = "deleteTask"
    /\ distinctIds(allTasksOf(last.before))
    /\ Len(findTask(allTasksOf(last.before), last.id).children) = 2
    /\ nodeCount(allTasksOf(columns)) = nodeCount(allTasksOf(last.before)) - 3
    /\ \A i \in idsOf(<<findTask(allTasksOf(last.before), last.id)>>) :
          findTask(allTasksOf(columns), i) = NoTask

\* a nested task was deleted: its parent keeps its other child, in place
C19_WitnessNested ==
    /\ last.op = "deleteTask"
    /\ findParent(allTasksOf(last.before), last.id) # NoTask
    /\ Len(findParent(allTasksOf(last.before), last.id).children) = 2
    /\ Len(findTask(allTasksOf(columns),
                    findParent(allTasksOf(last.before), last.id).id).children) = 1

(***************************************************************************)
(* C20: forest well-formedness: with fresh generated ids, after any        *)
(* sequence of addTask, addChildTask, deleteTask, cloneTask, moveToColumn  *)
(* and drag-end commits (with any DragState, also one whose target is the  *)
(* dragged task or its descendant) the columns form a forest in which all  *)
(* task ids are pairwise distinct, every task occurs in exactly one        *)
(* sibling list (one column or one parent), and no task is its own         *)
(* descendant.                                                             *)
(***************************************************************************)
\* whether a sibling list holds the id directly
holds(tasks, id) == \E i \in 1..Len(tasks) : tasks[i].id = id

\* the number of children lists, anywhere in the forest, that hold the id
RECURSIVE parentsHolding(_, _)
parentsHolding(tasks, id) ==
    IF tasks = <<>> THEN 0
    ELSE LET t == Head(tasks)
         IN (IF holds(t.children, id) THEN 1 ELSE 0)
            + parentsHolding(t.children, id)
            + parentsHolding(Tail(tasks), id)

\* the number of sibling lists (column top levels and children lists)
siblingListsHolding(cols, id) ==
    Cardinality({k \in ColumnIds : holds(cols[k], id)})
    + parentsHolding(allTasksOf(cols), id)

C20_WitnessOwnDescendant ==
    /\ DragEndActed
    /\ last.dragState # NullDragState
    /\ isDescendant(allTasksOf(last.before), last.id, last.dragState.targetId)
    /\ Cardinality(idsOf(allTasksOf(columns))) = nodeCount(allTasksOf(columns))

(***************************************************************************)
(* C21: for every forest with pairwise distinct ids, isDescendant(forest,  *)
(* a, c) is true exactly when c occurs at any depth in the subtree below   *)
(* the node a (a itself excluded); it is false when a = c, when a is not   *)
(* in the forest, and for every pair of unrelated ids.                     *)
(***************************************************************************)
\* every node of a forest, at any depth
RECURSIVE nodesOf(_)
nodesOf(tasks) ==
    IF tasks = <<>> THEN {}
    ELSE {Head(tasks)} \cup nodesOf(Head(tasks).children) \cup nodesOf(Tail(tasks))

\* the ids strictly below the nodes with the given id
idsBelow(tasks, a) == UNION {idsOf(n.children) : n \in {m \in nodesOf(tasks) : m.id = a}}

C21_IsDescendant ==
    LET tasks == allTasksOf(columns)
        ids == idsOf(tasks) \cup {"gone"}
    IN distinctIds(tasks) =>
          \A a \in ids, c \in ids :
             /\ isDescendant(tasks, a, c) <=> c \in idsBelow(tasks, a)
             /\ a = c => ~isDescendant(tasks, a, c)
             /\ a \notin idsOf(tasks) => ~isDescendant(tasks, a, c)
             /\ (c \notin idsBelow(tasks, a) /\ a \notin idsBelow(tasks, c))
                   => (~isDescendant(tasks, a, c) /\ ~isDescendant(tasks, c, a))

\* a forest three levels deep: a grandchild is a descendant, its grandparent
\* is not one of it, and a task of another subtree is unrelated
C21_Witness ==
    LET tasks == allTasksOf(columns)
    IN /\ distinctIds(tasks)
       /\ \E a \in idsOf(tasks), c \in idsOf(tasks) :
             /\ isDescendant(tasks, a, c)
             /\ findParent(tasks, c) # NoTask
             /\ findParent(tasks, c).id # a
             /\ ~isDescendant(tasks, c, a)
       /\ \E u \in idsOf(tasks), v \in idsOf(tasks) :
             u # v /\ ~isDescendant(tasks, u, v) /\ ~isDescendant(tasks, v, u)

(***************************************************************************)
(* C22: the classifier never targets the dragged subtree: for every        *)
(* forest, dragged task and hover target (column, task zone or bare task   *)
(* id) the DragState onDragOver produces is none, or its targetId is       *)
(* neither the dragged task's id nor the id of one of its descendants;     *)
(* this includes the column-bottom rule, which takes the column's last     *)
(* top-level task as the anchor.                                           *)
(***************************************************************************)
\* the droppables a drag of the given task can be over
droppablesFor(cols, active) ==
    {[id |-> c, zone |-> ""] : c \in ColumnIds}
    \cup {[id |-> t, zone |-> z] : t \in idsOf(allTasksOf(cols)), z \in Zones}

\* the DragState keeps clear of the subtree of the dragged task
clearOfDragged(cols, active, state) ==
    \/ state = NullDragState
    \/ /\ state.targetId # active
       /\ state.targetId \notin idsBelow(allTasksOf(cols), active)

C22_NeverTargetsDragged ==
    \A active \in TaskIds :
       \A rawOver \in droppablesFor(columns, active) \cup {NullOver} :
          \A overTop \in OverTops, activeCenterY \in CenterYs :
             clearOfDragged(columns, active,
                            onDragOverState(columns, active, rawOver, overTop, activeCenterY))

\* a drag is over the bottom of its own column, and the anchor is the
\* column's last top-level task, another task than the dragged one
C22_Witness ==
    /\ activeId # ""
    /\ over.zone = ""
    /\ over.id \in ColumnIds
    /\ over.id = columnOf(columns, activeId)
    /\ dragState = onDragOverState(columns, activeId, over, 0, HeaderOffset)
    /\ dragState.targetId = columns[over.id][Len(columns[over.id])].id
    /\ clearOfDragged(columns, activeId, dragState)

\* a drag is over a child of the dragged task, and there is no DragState
C22_WitnessDescendant ==
    /\ activeId # ""
    /\ over.id \in idsBelow(allTasksOf(columns), activeId)
    /\ dragState = NullDragState
    /\ onDragOverState(columns, activeId, over, 0, HeaderOffset) = NullDragState

(***************************************************************************)
(* C23: classifier decision table: for every hover that is not on the      *)
(* dragged task or a descendant, onDragOver emits insert{top, column} when *)
(* the target is a column and the dragged rectangle's vertical centre is   *)
(* above column top + 50; insert{bottom, last top-level task of the        *)
(* column} when at or below that offset and the column is non-empty and    *)
(* its last task is not the dragged one, else insert{bottom, column};      *)
(* insert{top, task} for a task's top zone, nest{task} for its middle      *)
(* zone, insert{bottom, task} for its bottom zone, and nest{target} for    *)
(* any other target.                                                       *)
(***************************************************************************)
insertAt(position, targetId) == [type |-> "insert", position |-> position, targetId |-> targetId]

nestIn(targetId) == [type |-> "nest", position |-> "", targetId |-> targetId]

\* the hover is on a column's background
onColumn(rawOver) == rawOver.zone = "" /\ rawOver.id \in ColumnIds

\* the rows of the table, for one hover
followsTable(cols, active, rawOver, overTop, activeCenterY, state) ==
    LET inColumn == cols[rawOver.id]
        lastTask == inColumn[Len(inColumn)]
        anchored == Len(inColumn) > 0 /\ lastTask.id # active
    IN /\ (onColumn(rawOver) /\ activeCenterY < overTop + 50)
             => state = insertAt("top", rawOver.id)
       /\ (onColumn(rawOver) /\ activeCenterY >= overTop + 50 /\ anchored)
             => state = insertAt("bottom", lastTask.id)
       /\ (onColumn(rawOver) /\ activeCenterY >= overTop + 50 /\ ~anchored)
             => state = insertAt("bottom", rawOver.id)
       /\ (~onColumn(rawOver) /\ rawOver.zone = "top")
             => state = insertAt("top", rawOver.id)
       /\ (~onColumn(rawOver) /\ rawOver.zone = "mid")
             => state = nestIn(rawOver.id)
       /\ (~onColumn(rawOver) /\ rawOver.zone = "bot")
             => state = insertAt("bottom", rawOver.id)
       /\ (~onColumn(rawOver) /\ rawOver.zone = "")
             => state = nestIn(rawOver.id)

C23_DecisionTable ==
    \A active \in TaskIds :
       \A rawOver \in droppablesFor(columns, active) :
          \A overTop \in OverTops, activeCenterY \in CenterYs :
             (rawOver.id # active /\ rawOver.id \notin idsBelow(allTasksOf(columns), active))
                => followsTable(columns, active, rawOver, overTop, activeCenterY,
                                onDragOverState(columns, active, rawOver, overTop,
                                                activeCenterY))

\* a drag whose centre is exactly on the offset, over a column holding
\* another task: the DragState is insert{bottom, that column's last task}
C23_Witness ==
    /\ activeId # ""
    /\ onColumn(over)
    /\ Len(columns[over.id]) > 0
    /\ columns[over.id][Len(columns[over.id])].id # activeId
    /\ columnOf(columns, activeId) # over.id
    /\ dragState = insertAt("bottom", columns[over.id][Len(columns[over.id])].id)
    /\ dragState = onDragOverState(columns, activeId, over, 0, 50)
    /\ onDragOverState(columns, activeId, over, 0, 49) = insertAt("top", over.id)

\* a drag over the middle zone of another task: the DragState is nest{task}
C23_WitnessZone ==
    /\ activeId # ""
    /\ over.zone = "mid"
    /\ over.id # activeId
    /\ dragState = nestIn(over.id)

(***************************************************************************)
(* C24: standard placement follows the DragState exactly once: for a       *)
(* drag-end without grouping, after the dragged task has been removed from *)
(* its old place, insert{top, column} makes it the first top-level task of *)
(* that column and insert{bottom, column} the last; insert{top, task}      *)
(* places it immediately before the target in the target's sibling list    *)
(* and insert{bottom, task} immediately after; nest{task} makes it the     *)
(* last child of the target and sets the target's isExpanded to true; all  *)
(* other tasks keep their parent and relative order.                       *)
(***************************************************************************)
\* the grouping condition of onDragEnd: modifier held, the dragged task has a
\* parent and the destination column is not the source column
DragEndGrouping ==
    /\ DragEndActed
    /\ last.ctrlKey
    /\ findParent(allTasksOf(last.before), last.id) # NoTask
    /\ DragEndDestination # ""
    /\ DragEndDestination # columnOf(last.before, last.id)

\* a move (no duplicate, no grouping) with a DragState whose target is a column
\* or a task still on the board once the dragged task is taken out
StandardPlacement ==
    /\ DragEndActed
    /\ ~DragEndDuplicated
    /\ ~DragEndGrouping
    /\ last.dragState # NullDragState
    /\ DragEndDestination # ""

\* the sibling list a task is in: its parent's children, or its column
siblingsOf(cols, id) ==
    LET parent == findParent(allTasksOf(cols), id)
    IN IF parent # NoTask THEN parent.children ELSE cols[columnOf(cols, id)]

\* the column map with the given task marked expanded
expandedAt(cols, id) == updateTaskColumns(cols, id, [isExpanded |-> TRUE])

C24_StandardPlacement ==
    StandardPlacement =>
        LET T == findTask(allTasksOf(last.before), last.id)
            target == last.dragState.targetId
            type == last.dragState.type
            position == last.dragState.position
            list == siblingsOf(columns, last.id)
        IN /\ occurrences(allTasksOf(columns), last.id) = 1
           /\ findTask(allTasksOf(columns), last.id) = T
           /\ nodeCount(allTasksOf(columns)) = nodeCount(allTasksOf(last.before))
           /\ (target \in ColumnIds /\ position = "top")
                 => columns[target][1] = T
           /\ (target \in ColumnIds /\ position # "top")
                 => columns[target][Len(columns[target])] = T
           /\ (target \notin ColumnIds /\ type = "insert" /\ position = "top")
                 => \E i \in 1..(Len(list) - 1) : list[i] = T /\ list[i + 1].id = target
           /\ (target \notin ColumnIds /\ type = "insert" /\ position = "bottom")
                 => \E i \in 1..(Len(list) - 1) : list[i].id = target /\ list[i + 1] = T
           /\ (target \notin ColumnIds /\ type = "nest")
                 => LET X == findTask(allTasksOf(columns), target)
                    IN /\ X.isExpanded
                       /\ Len(X.children) > 0
                       /\ X.children[Len(X.children)] = T
           /\ IF target \notin ColumnIds /\ type = "nest"
                 THEN without(columns, last.id)
                        = expandedAt(without(last.before, last.id), target)
                 ELSE without(columns, last.id) = without(last.before, last.id)

\* a task with a sibling was inserted right after a task of another column
C24_Witness ==
    /\ StandardPlacement
    /\ last.dragState.type = "insert"
    /\ last.dragState.position = "bottom"
    /\ last.dragState.targetId \notin ColumnIds
    /\ columnOf(last.before, last.id) # columnOf(columns, last.id)
    /\ \E i \in 1..(Len(siblingsOf(columns, last.id)) - 1) :
          /\ siblingsOf(columns, last.id)[i].id = last.dragState.targetId
          /\ siblingsOf(columns, last.id)[i + 1].id = last.id

\* a task was nested into a collapsed leaf, which is expanded afterwards
C24_WitnessNest ==
    /\ StandardPlacement
    /\ last.dragState.type = "nest"
    /\ ~findTask(allTasksOf(last.before), last.dragState.targetId).isExpanded
    /\ findTask(allTasksOf(columns), last.dragState.targetId).isExpanded
    /\ findParent(allTasksOf(columns), last.id).id = last.dragState.targetId

(***************************************************************************)
(* C25: grouping overrides literal placement on a task target: when the    *)
(* modifier is held, the dragged task has a parent P and the DragState     *)
(* targets a task that lies in a column other than the source column, the  *)
(* result is the same as for a drop on that column's background: the task  *)
(* goes under the task matching identity(P) in that column, or under a new *)
(* parent copy appended at the column bottom, and it is neither nested     *)
(* into nor inserted next to the DragState's target task.                  *)
(***************************************************************************)
\* a grouping drag-end whose DragState targets a task
GroupingOnTask ==
    /\ DragEndGrouping
    /\ last.dragState.targetId \notin ColumnIds

\* the drag-end gave what the same drag-end gives on the background of the
\* destination column
AsOnColumnBackground ==
    \E position \in {"top", "bottom"}, freshId \in {FreshIds[i] : i \in 1..Len(FreshIds)} :
       /\ freshId \notin idsOf(allTasksOf(last.before))
       /\ columns = onDragEndColumns(last.before, wipLimit, last.id,
                                     insertAt(position, DragEndDestination), TRUE, freshId)

\* the task is under a task of the destination column that carries the
\* identity of P, or under a new task that is the last of that column
UnderGroupParent ==
    LET before == allTasksOf(last.before)
        identityId == identityOf(findParent(before, last.id))
        C == DragEndDestination
        parent == findParent(columns[C], last.id)
    IN /\ parent # NoTask
       /\ parent.id = identityId \/ parent.sourceId = identityId
       /\ \/ parent.id \in idsOf(last.before[C])
          \/ /\ parent.id \notin idsOf(before)
             /\ columns[C][Len(columns[C])].id = parent.id

\* the task is a child of the DragState's target
NestedIntoTarget ==
    findParent(allTasksOf(columns), last.id).id = last.dragState.targetId

\* the task is the neighbour of the DragState's target in a sibling list
NextToTarget ==
    LET list == siblingsOf(columns, last.id)
    IN \E i \in 1..(Len(list) - 1) :
          {list[i].id, list[i + 1].id} = {last.id, last.dragState.targetId}

\* the statement as claimed
C25_AsClaimed ==
    GroupingOnTask =>
        /\ AsOnColumnBackground
        /\ UnderGroupParent
        /\ ~NestedIntoTarget
        /\ ~NextToTarget

\* amended: the placement is that of the column drop, whatever the target; the
\* task ends up in the target only when the target is the matching parent
\* itself, and next to the target only when the target is a child of it
C25_GroupingOverrides ==
    GroupingOnTask =>
        LET identityId == identityOf(findParent(allTasksOf(last.before), last.id))
            X == findTask(allTasksOf(columns), last.dragState.targetId)
        IN /\ AsOnColumnBackground
           /\ UnderGroupParent
           /\ NestedIntoTarget => (X.id = identityId \/ X.sourceId = identityId)
           /\ NextToTarget =>
                 /\ findParent(allTasksOf(last.before), X.id) # NoTask
                 /\ findParent(allTasksOf(last.before), X.id).id
                       = findParent(allTasksOf(columns), last.id).id

\* an insert before a child of the matching parent was overridden: the task
\* is the last child of the matching parent, behind the target
C25_Witness ==
    /\ GroupingOnTask
    /\ last.dragState.type = "insert"
    /\ last.dragState.position = "top"
    /\ findParent(allTasksOf(columns), last.id).id \in idsOf(last.before[DragEndDestination])
    /\ LET list == findParent(allTasksOf(columns), last.id).children
       IN /\ Len(list) >= 2
          /\ list[Len(list)].id = last.id
          /\ list[Len(list) - 1].id = last.dragState.targetId

(***************************************************************************)
(* C26: same-column drags ignore the modifier for nested tasks: for every  *)
(* forest, every dragged task that has a parent and every DragState whose  *)
(* destination column is the source column, the forest drag-end produces   *)
(* with the modifier held equals the forest the same drag-end produces     *)
(* without it (no duplicate, no parent copy, no grouping).                 *)
(***************************************************************************)
\* a drag-end of a nested task whose DragState delivers to the source column
SameColumnNested ==
    /\ DragEndActed
    /\ findParent(allTasksOf(last.before), last.id) # NoTask
    /\ DragEndDestination # ""
    /\ DragEndDestination = columnOf(last.before, last.id)

C26_SameColumnIgnoresModifier ==
    SameColumnNested =>
        /\ \A freshId \in {FreshIds[i] : i \in 1..Len(FreshIds)} :
              columns = onDragEndColumns(last.before, wipLimit, last.id, last.dragState,
                                         ~last.ctrlKey, freshId)
        /\ idsOf(allTasksOf(columns)) = idsOf(allTasksOf(last.before))
        /\ nodeCount(allTasksOf(columns)) = nodeCount(allTasksOf(last.before))
        /\ findTask(allTasksOf(columns), last.id) = findTask(allTasksOf(last.before), last.id)

\* with the modifier held a child was dragged onto its own column and is now
\* a top-level task of it, as it would be without the modifier
C26_Witness ==
    /\ SameColumnNested
    /\ last.ctrlKey
    /\ last.dragState.targetId \in ColumnIds
    /\ findParent(allTasksOf(columns), last.id) = NoTask
    /\ columnOf(columns, last.id) = columnOf(last.before, last.id)
    /\ columns = onDragEndColumns(last.before, wipLimit, last.id, last.dragState, FALSE,
                                  nanoid(0))

(***************************************************************************)
(* C27: group placement shape: in a modifier-held cross-column drag of a   *)
(* task with parent P into column C, if C contains a task M with M.id or   *)
(* M.sourceId equal to identity(P) then the dragged task becomes the last  *)
(* child of M and M.isExpanded is true afterwards; otherwise exactly one   *)
(* new task is appended as the last top-level task of C, with a fresh id,  *)
(* sourceId = identity(P), P's other non-children fields, and the dragged  *)
(* task as its sole child.                                                 *)
(***************************************************************************)
C27_GroupPlacementShape ==
    DragEndGrouping =>
        LET before == allTasksOf(last.before)
            after == allTasksOf(columns)
            P == findParent(before, last.id)
            T == findTask(before, last.id)
            identityId == identityOf(P)
            C == DragEndDestination
            cut == without(last.before, last.id)
        IN IF carrying(last.before[C], identityId) > 0
              THEN /\ idsOf(after) = idsOf(before)
                   /\ nodeCount(after) = nodeCount(before)
                   /\ \E m \in idsOf(last.before[C]) :
                         LET M == findTask(last.before[C], m)
                             M2 == findTask(columns[C], m)
                         IN /\ M.id = identityId \/ M.sourceId = identityId
                            /\ M2.children = Append(M.children, T)
                            /\ M2.isExpanded
                            /\ without(columns, last.id) = expandedAt(cut, m)
              ELSE LET N == columns[C][Len(columns[C])]
                   IN /\ nodeCount(after) = nodeCount(before) + 1
                      /\ idsOf(after) = idsOf(before) \cup {N.id}
                      /\ N.id \notin idsOf(before)
                      /\ N.sourceId = identityId
                      /\ N.content = P.content
                      /\ N.isExpanded = P.isExpanded
                      /\ N.children = <<T>>
                      /\ columns = [cut EXCEPT ![C] = Append(@, N)]

\* a child with a sibling went to a column without a matching parent: one new
\* task closes that column, carrying P's identity and holding only the child,
\* and P keeps its other child
C27_Witness ==
    /\ DragEndGrouping
    /\ carrying(last.before[DragEndDestination],
                identityOf(findParent(allTasksOf(last.before), last.id))) = 0
    /\ Len(findParent(allTasksOf(last.before), last.id).children) = 2
    /\ LET N == columns[DragEndDestination][Len(columns[DragEndDestination])]
       IN /\ N.id \notin idsOf(allTasksOf(last.before))
          /\ N.sourceId = identityOf(findParent(allTasksOf(last.before), last.id))
          /\ Len(N.children) = 1
          /\ N.children[1].id = last.id
    /\ Len(findTask(allTasksOf(columns),
                    findParent(allTasksOf(last.before), last.id).id).children) = 1

\* a child went to a column that holds a matching parent and is its last child
C27_WitnessExisting ==
    /\ DragEndGrouping
    /\ carrying(last.before[DragEndDestination],
                identityOf(findParent(allTasksOf(last.before), last.id))) > 0
    /\ idsOf(allTasksOf(columns)) = idsOf(allTasksOf(last.before))
    /\ LET M == findParent(allTasksOf(columns), last.id)
       IN M.isExpanded /\ M.children[Len(M.children)].id = last.id

(***************************************************************************)
(* C28: the auto-group preview matches the committed action: for every     *)
(* forest, dragged task, DragState and modifier-key history during a drag  *)
(* (key held at pointer-down and/or at release), the autoGroupState shown  *)
(* at the moment of release names exactly the operation onDragEnd then     *)
(* performs: duplicate iff a top-level duplicate is made,                  *)
(* group-existing(parentId) iff the task is pushed under that parent,      *)
(* create-parent iff a parent copy is synthesized, none iff a plain move   *)
(* is made.                                                                *)
(***************************************************************************)
\* the operation the last drag-end performed, named as the preview names it
performedOperation ==
    LET before == allTasksOf(last.before)
        after == allTasksOf(columns)
        made == idsOf(after) \ idsOf(before)
    IN IF DragEndDuplicated /\ made # {}
          THEN [type |-> "duplicate", parentId |-> ""]
       ELSE IF DragEndGrouping /\ made # {}
          THEN [type |-> "create-parent", parentId |-> ""]
       ELSE IF DragEndGrouping
          THEN [type |-> "group-existing", parentId |-> findParent(after, last.id).id]
       ELSE NullAutoGroup

C28_PreviewMatchesCommit ==
    DragEndActed => last.autoGroupState = performedOperation

(***************************************************************************)
(* C29: frame of the task operations: every task-level operation addressed *)
(* to an existing project p (addTask, updateTask, addChildTask,            *)
(* deleteTask, cloneTask, moveToColumn, updateProjectColumns as called by  *)
(* drag-end) leaves every other project, the order of the projects,        *)
(* activeProjectId, theme and p's own id, name, description and wipLimit   *)
(* unchanged; only p's columns may differ.                                 *)
(***************************************************************************)
TaskOperations == ProjectOperations \ {"updateWipLimit"}

\* the last handler was a task operation called with the id of a project
KnownProjectCall ==
    /\ trace.event.kind \in TaskOperations
    /\ \E i \in 1..Len(trace.event.dataBefore.projects) :
          trace.event.dataBefore.projects[i].id = trace.event.arg

C29_TaskOperationFrame ==
    KnownProjectCall =>
        LET before == trace.event.dataBefore
        IN /\ Len(data.projects) = Len(before.projects)
           /\ data.activeProjectId = before.activeProjectId
           /\ data.theme = before.theme
           /\ data.version = before.version
           /\ DOMAIN data = DOMAIN before
           /\ \A i \in 1..Len(before.projects) :
                 IF before.projects[i].id = trace.event.arg
                    THEN [data.projects[i] EXCEPT !.columns = before.projects[i].columns]
                            = before.projects[i]
                    ELSE data.projects[i] = before.projects[i]

\* an operation on the second, inactive project changed that project's
\* columns and nothing else
C29_Witness ==
    /\ KnownProjectCall
    /\ Len(data.projects) = 2
    /\ trace.event.arg = data.projects[2].id
    /\ data.activeProjectId = data.projects[1].id
    /\ data.projects[2].columns # trace.event.dataBefore.projects[2].columns
    /\ data.projects[1] = trace.event.dataBefore.projects[1]
    /\ data.projects[2].wipLimit = trace.event.dataBefore.projects[2].wipLimit

(***************************************************************************)
(* C30: version carried by follow-up saves                                 *)
(***************************************************************************)

\* the load sets version 1 and only a successful save raises it, to the
\* newVersion that save returned
someSaveSucceeded == data.version > EmptyLoaded.version

\* the last handler was a doSave that issued a request
SaveIssued ==
    /\ trace.event.kind \in {"debounce", "retrigger"}
    /\ trace.event.started

\* C30: every save request issued after some save has succeeded carries as
\* its version the newVersion returned by the most recent successful save,
\* under every interleaving of save completion, the commit of the returned
\* version, edits and the timers
C30_FollowUpCarriesVersion ==
    (SaveIssued /\ someSaveSucceeded) =>
        trace.saveLog[Len(trace.saveLog)].version = data.version

====
